---- MODULE Spec2Model ----
(***************************************************************************)
(* The todo service of src/unnamed/part_004 (Express application): the     *)
(* gateway middleware chain, the observability middleware with its         *)
(* res.on("finish") completion hook, the in-memory item store and the      *)
(* route handlers, as one state machine.                                   *)
(*                                                                         *)
(* Text is a sequence of one-character strings.  A request path is a       *)
(* sequence of segments, "/api/todos/1/toggle" being                      *)
(* <<"api","todos","1","toggle">>; a route pattern is the same with the   *)
(* segment ":id".  A metric with labels is a bag of label tuples: one copy *)
(* per increment (or per observation).                                     *)
(***************************************************************************)
EXTENDS Integers, Sequences, FiniteSets, Bags, TLC

VARIABLES
    todos,                \* const todos = []                      (l.140)
    nextTodoId,           \* let nextTodoId = 1                    (l.141)
    requestCount,         \* let requestCount = 0                  (l.139)
    todoCreatedTotal,     \* Counter{priority}
    todoCompletedTotal,   \* Counter{priority}
    todoDeletedTotal,     \* Counter
    todoCountActive,      \* Gauge
    todoCountCompleted,   \* Gauge
    todoCountByCategory,  \* Gauge{category}
    httpRequestsInFlight, \* Gauge{method, route}: [key -> Int], absent key = no series
    httpRequestTotal,     \* Counter{method, route, status_code}
    httpErrorsTotal,      \* Counter{method, route, status_code}
    httpRequestDuration,  \* Histogram{method, route, status_code}: observations
    httpRequestCpuTime,   \* Counter{method, route, status_code}: one copy per unit
    httpRequestSizeBytes, \* Histogram{method, route}: observations
    httpResponseSizeBytes,\* Histogram{method, route, status_code}: observations
    limiterHits,          \* store of limiter:       [client -> hits in its window]
    strictHits,           \* store of strictLimiter: [client -> hits in its window]
    clock,                \* the wall clock, in milliseconds
    open,                 \* responses begun and not yet finished or closed
    resp,                 \* the response produced by the last request handled
    arrived,              \* history: number of requests received
    finished,             \* history: number of responses completely sent
    assignedIds,          \* history: the ids given to created items, in order
    lastToggle,           \* history: the successful toggle handled last, if it was the last request
    windowLog,            \* history: per client, limiter verdicts in its current window
    faultLog,             \* history: handler errors thrown, records logged at level error,
                          \*          and what failed in the request handled last
    requestNums,          \* history: the request numbers the middleware gave out, in order
    stranded,             \* history: per (method, path), hooked requests whose response
                          \*          was dropped and will never emit "finish"
    timesheets,                \* src/app.js: const timesheets = []          (l.109)
    timesheetSubmissionsTotal, \* src/app.js: Counter{project}
    timesheetHoursTotal,       \* src/app.js: Counter{project}: one copy per hour
    timesheetHoursPerEntry,    \* src/app.js: Histogram{project}: observations
    timesheetCount             \* src/app.js: Gauge timesheet_entries_current

storeVars == <<todos, nextTodoId>>
bizVars == <<todoCreatedTotal, todoCompletedTotal, todoDeletedTotal,
             todoCountActive, todoCountCompleted, todoCountByCategory>>
httpVars == <<httpRequestTotal, httpErrorsTotal, httpRequestDuration,
              httpRequestCpuTime, httpRequestSizeBytes, httpResponseSizeBytes>>
limitVars == <<limiterHits, strictHits, windowLog>>
sheetVars == <<timesheets, timesheetSubmissionsTotal, timesheetHoursTotal,
               timesheetHoursPerEntry, timesheetCount>>
vars == <<storeVars, bizVars, httpVars, limitVars, requestCount,
          httpRequestsInFlight, clock, open, resp, arrived, finished,
          assignedIds, lastToggle, faultLog, requestNums, stranded, sheetVars>>

(***************************************************************************)
(* Bounds of the model.                                                    *)
(***************************************************************************)
MaxRequests == 3
MaxStoreRequests == 4
MaxFaultRequests == 2
MaxOpen == 2
MaxClock == 1
MaxLimiterExtra == 3
MaxQuotaExtra == 2
MaxQuotaCreates == 2
MaxQuotaMalformed == 1
MaxSheetRequests == 2
MaxProbes == 2

(***************************************************************************)
(* Program constants.                                                      *)
(***************************************************************************)
LimiterMax == 100
StrictLimiterMax == 20
BodyLimitBytes == 10240
TaskMaxLen == 500
DescriptionMaxLen == 2000
NullTime == -1
HoursMax == 24

todoCategories == {"work", "personal", "shopping", "health", "other"}
todoPriorities == {"low", "medium", "high"}

Null == <<"NULL">>
NullDate == [kind |-> "null", day |-> 0]

(***************************************************************************)
(* Text.                                                                   *)
(***************************************************************************)
ToLowerChar(c) ==
    CASE c = "A" -> "a"
      [] c = "B" -> "b"
      [] OTHER -> c

ToLowerCase(s) == [i \in 1..Len(s) |-> ToLowerChar(s[i])]

\* String.prototype.includes
Includes(s, t) ==
    \E i \in 0..(Len(s) - Len(t)) : \A j \in 1..Len(t) : s[i + j] = t[j]

RECURSIVE TrimStart(_)
TrimStart(s) ==
    IF s # <<>> /\ Head(s) = " " THEN TrimStart(Tail(s)) ELSE s

RECURSIVE TrimEnd(_)
TrimEnd(s) ==
    IF s # <<>> /\ s[Len(s)] = " " THEN TrimEnd(SubSeq(s, 1, Len(s) - 1)) ELSE s

\* express-validator's trim() sanitizer
Trim(s) == TrimEnd(TrimStart(s))

Xss_identity(s) == s

\* xss(): text outside a complete tag is HTML-escaped.  The alphabet of the
\* model has no ">", so no input holds a complete tag and every "<" is escaped.
RECURSIVE Xss(_)
Xss(s) ==
    IF s = <<>> THEN <<>>
    ELSE IF Head(s) = "<" THEN <<"&", "l", "t", ";">> \o Xss(Tail(s))
    ELSE <<Head(s)>> \o Xss(Tail(s))

\* the trim() sanitizer and xss() on a category, which the model keeps as one
\* word: surrounding blanks are written as a padded word
TrimWord(w) ==
    CASE w = " work " -> "work"
      [] w = " " -> ""
      [] OTHER -> w

XssWord(w) == IF w = "<work" THEN "&lt;work" ELSE w

\* parseInt() and validator's isInt() on the decimal strings of the model
Digits == <<"1", "2", "3", "4", "5", "6", "7", "8", "9">>

IsIntStr(s) == s = "0" \/ \E i \in 1..Len(Digits) : Digits[i] = s

ParseInt(s) == IF s = "0" THEN 0 ELSE CHOOSE i \in 1..Len(Digits) : Digits[i] = s

(***************************************************************************)
(* Dates.  A submitted due date is a record: kind "date" is "YYYY-MM-DD",  *)
(* kind "datetime" is "YYYY-MM-DDThh:00" with a UTC offset in hours, kind  *)
(* "text" is no ISO 8601 string.  day numbers the calendar day.            *)
(***************************************************************************)
IsISO8601(d) == d.kind \in {"date", "datetime"}

\* getDateOnly: new Date(value).toISOString().split("T")[0], the UTC day
getDateOnly(d) ==
    IF d.kind = "date" THEN [kind |-> "date", day |-> d.day]
    ELSE IF d.kind = "datetime"
    THEN LET utcHour == d.hour - d.offset
         IN  [kind |-> "date",
              day |-> IF utcHour >= 24 THEN d.day + 1
                      ELSE IF utcHour < 0 THEN d.day - 1 ELSE d.day]
    ELSE NullDate

(***************************************************************************)
(* Labelled metrics.                                                       *)
(***************************************************************************)
\* counter.labels(k).inc() and histogram.labels(k).observe(v)
BagInc(b, k) == b (+) SetToBag({k})

\* counter.labels(k).inc(n)
RECURSIVE BagIncBy(_, _, _)
BagIncBy(b, k, n) == IF n = 0 THEN b ELSE BagIncBy(BagInc(b, k), k, n - 1)

GaugeValue(g, k) == IF k \in DOMAIN g THEN g[k] ELSE 0

\* gauge.labels(k).inc() / .dec(): the series is created on first use
GaugeInc(g, k) == [j \in DOMAIN g \cup {k} |-> GaugeValue(g, j) + (IF j = k THEN 1 ELSE 0)]

GaugeDec(g, k) == [j \in DOMAIN g \cup {k} |-> GaugeValue(g, j) - (IF j = k THEN 1 ELSE 0)]

(***************************************************************************)
(* The item store.                                                         *)
(***************************************************************************)
Range(s) == {s[i] : i \in 1..Len(s)}

RECURSIVE SelectSeqBy(_, _)
SelectSeqBy(s, keep) ==
    IF s = <<>> THEN <<>>
    ELSE IF Head(s) \in keep THEN <<Head(s)>> \o SelectSeqBy(Tail(s), keep)
    ELSE SelectSeqBy(Tail(s), keep)

\* Array.prototype.sort is stable: an element goes after the elements that
\* compare before it or equal to it.  compare(a, b) = b.createdAt - a.createdAt
RECURSIVE InsertByCreatedAtDesc(_, _)
InsertByCreatedAtDesc(sorted, t) ==
    IF sorted = <<>> THEN <<t>>
    ELSE IF Head(sorted).createdAt - t.createdAt < 0
         THEN <<t>> \o sorted
         ELSE <<Head(sorted)>> \o InsertByCreatedAtDesc(Tail(sorted), t)

RECURSIVE SortByCreatedAtDesc(_)
SortByCreatedAtDesc(s) ==
    IF s = <<>> THEN <<>>
    ELSE InsertByCreatedAtDesc(SortByCreatedAtDesc(SubSeq(s, 1, Len(s) - 1)), s[Len(s)])

getAllTodos == SortByCreatedAtDesc(todos)

HasTodo(list, id) == \E i \in 1..Len(list) : list[i].id = id

\* todos.findIndex((todo) => todo.id === id): the first such index
IndexOfTodo(list, id) == CHOOSE i \in 1..Len(list) :
    list[i].id = id /\ \A j \in 1..(i - 1) : list[j].id # id

getTodoById(list, id) == list[IndexOfTodo(list, id)]

getTodoMetrics(list) ==
    LET completed == Cardinality({i \in 1..Len(list) : list[i].completed = 1})
    IN  [active |-> Len(list) - completed, completed |-> completed, total |-> Len(list)]

getActiveCategoryCount_all(list, category) ==
    Cardinality({i \in 1..Len(list) : list[i].category = category})

getActiveCategoryCount(list, category) ==
    Cardinality({i \in 1..Len(list) : list[i].category = category /\ list[i].completed = 0})

getActivePriorityCount_all(list, priority) ==
    Cardinality({i \in 1..Len(list) : list[i].priority = priority})

getActivePriorityCount(list, priority) ==
    Cardinality({i \in 1..Len(list) : list[i].priority = priority /\ list[i].completed = 0})

(***************************************************************************)
(* Requests.  query and body are functions of the parameters present.      *)
(***************************************************************************)
Has(f, k) == k \in DOMAIN f

NoFields == <<>>

Req(client, method, path, query, body, bytes, malformed) ==
    [client |-> client, method |-> method, path |-> path, query |-> query,
     body |-> body, bytes |-> bytes, malformed |-> malformed]

\* Express routing: the route patterns in registration order (l.312-818)
Routes == <<
    [method |-> "GET",    pattern |-> <<>>],
    [method |-> "GET",    pattern |-> <<"api", "todos">>],
    [method |-> "POST",   pattern |-> <<"api", "todos">>],
    [method |-> "PUT",    pattern |-> <<"api", "todos", ":id", "toggle">>],
    [method |-> "DELETE", pattern |-> <<"api", "todos", ":id">>],
    [method |-> "GET",    pattern |-> <<"api", "info">>],
    [method |-> "GET",    pattern |-> <<"api", "stats">>],
    [method |-> "GET",    pattern |-> <<"health">>],
    [method |-> "GET",    pattern |-> <<"metrics">>] >>

PathMatches(path, pattern) ==
    /\ Len(path) = Len(pattern)
    /\ \A i \in 1..Len(path) : pattern[i] = ":id" \/ pattern[i] = path[i]

RouteMatches(req, r) == r.method = req.method /\ PathMatches(req.path, r.pattern)

Matched(req) == \E i \in 1..Len(Routes) : RouteMatches(req, Routes[i])

\* req.route.path of the first route that matches
RouteOf(req) == Routes[CHOOSE i \in 1..Len(Routes) :
    RouteMatches(req, Routes[i]) /\ \A j \in 1..(i - 1) : ~RouteMatches(req, Routes[j])].pattern

IsRoute(req, method, pattern) ==
    Matched(req) /\ req.method = method /\ RouteOf(req) = pattern

\* req.params.id
IdParam(req) == req.path[3]

UnderApi_everyPath(req) == TRUE

\* app.use("/api/", limiter): the mount path matches a prefix of the path
UnderApi(req) == Len(req.path) >= 1 /\ req.path[1] = "api"


(***************************************************************************)
(* The gateway: limiter (mounted on /api/), express.json({limit: "10kb"}). *)
(* They are registered before the observability middleware, so a request   *)
(* they answer never reaches it.                                           *)
(***************************************************************************)
LimiterBlocks_atMax(hitsAfter, max) == hitsAfter >= max

\* express-rate-limit: the hit is counted first, then compared with max
LimiterBlocks(hitsAfter, max) == hitsAfter > max

HitsAfter(hits, client) == hits[client] + 1

\* express.json reads a body only when the request declares one
HasBody(req) == req.bytes > 0

Gateway(req) ==
    IF UnderApi(req) /\ LimiterBlocks(HitsAfter(limiterHits, req.client), LimiterMax)
    THEN "limited"
    ELSE IF HasBody(req) /\ req.bytes > BodyLimitBytes THEN "tooLarge"
    ELSE IF HasBody(req) /\ req.malformed THEN "badJson"
    ELSE "pass"

\* the limiter's part of a request: every request under /api/ is a hit
LimiterStep(req) ==
    IF UnderApi(req)
    THEN /\ limiterHits' = [limiterHits EXCEPT ![req.client] = @ + 1]
         /\ windowLog' = [windowLog EXCEPT ![req.client] =
                Append(@, ~LimiterBlocks(HitsAfter(limiterHits, req.client), LimiterMax))]
    ELSE UNCHANGED <<limiterHits, windowLog>>

NoToggle == [id |-> 0, wasCompleted |-> 0, counterBefore |-> 0, run |-> 0]

NoFault == [handlerThrows |-> 0, logged |-> 0, cause |-> "none"]

\* the request runs with nothing failing
Unfailing == faultLog' = [faultLog EXCEPT !.cause = "none"]

Response(req, status, body) ==
    [seq |-> arrived + 1, req |-> req, status |-> status, body |-> body]

NoRequest == Req("", "", <<>>, NoFields, NoFields, 0, FALSE)

\* a response object with what the completion hook's closure reads:
\* hooked = the hook listens for "finish"; phase "awaiting" = the handler is
\* suspended (held = its request), "ended" = res.end() was called;
\* sized = the response carries a content-length header
OpenResponse(req, route, status, hooked, phase, sized) ==
    [seq |-> arrived + 1, method |-> req.method, routeKey |-> req.path,
     route |-> route, status |-> status, requestSize |-> req.bytes,
     hooked |-> hooked, phase |-> phase, sized |-> sized, destroyed |-> FALSE,
     held |-> IF phase = "awaiting" THEN req ELSE NoRequest]

\* limiter: the client is over its quota, the default handler sends 429 (l.216-232)
RateLimited(req) ==
    /\ Gateway(req) = "limited"
    /\ LimiterStep(req)
    /\ arrived' = arrived + 1
    /\ resp' = Response(req, 429, [text |-> "Too many requests from this IP, please try again later."])
    /\ open' = open \cup {OpenResponse(req, req.path, 429, FALSE, "ended", TRUE)}
    /\ Unfailing
    /\ lastToggle' = NoToggle
    /\ UNCHANGED <<storeVars, bizVars, httpVars, strictHits, requestCount, requestNums,
                   httpRequestsInFlight, clock, finished, stranded, assignedIds, sheetVars>>

\* express.json: next(err) with 413 or 400 skips every middleware that is not
\* an error handler; Express's default error handler answers (l.234)
BodyRejected(req) ==
    /\ Gateway(req) \in {"tooLarge", "badJson"}
    /\ LimiterStep(req)
    /\ arrived' = arrived + 1
    /\ resp' = Response(req, IF Gateway(req) = "tooLarge" THEN 413 ELSE 400,
                        [html |-> "error page"])
    /\ open' = open \cup {OpenResponse(req, req.path,
                    IF Gateway(req) = "tooLarge" THEN 413 ELSE 400, FALSE, "ended", TRUE)}
    /\ Unfailing
    /\ lastToggle' = NoToggle
    /\ UNCHANGED <<storeVars, bizVars, httpVars, strictHits, requestCount, requestNums,
                   httpRequestsInFlight, clock, finished, stranded, assignedIds, sheetVars>>

(***************************************************************************)
(* The observability middleware (l.240-293): what it does on arrival.      *)
(***************************************************************************)
RouteKey(req) == <<req.method, req.path>>

RouteLabel_rawPath(req) == req.path

\* const route = req.route ? req.route.path : req.path
RouteLabel(req) == IF Matched(req) THEN RouteOf(req) ELSE req.path

NextRequestNum_same(count) == count

\* requestCount++ (l.241): the request's number is the incremented count
NextRequestNum(count) == count + 1

Observe(req) ==
    /\ Gateway(req) = "pass"
    /\ LimiterStep(req)
    /\ arrived' = arrived + 1
    /\ requestCount' = NextRequestNum(requestCount)
    /\ requestNums' = Append(requestNums, requestCount')
    /\ httpRequestsInFlight' = GaugeInc(httpRequestsInFlight, RouteKey(req))
    /\ UNCHANGED <<httpVars, finished, stranded, sheetVars>>

\* the handler has called res.json / res.send: the response is ended
Respond(req, status, body) ==
    /\ resp' = Response(req, status, body)
    /\ open' = open \cup {OpenResponse(req, RouteLabel(req), status, TRUE, "ended", TRUE)}

\* the handler answers with nothing having failed
Answer(req, status, body) ==
    /\ Respond(req, status, body)
    /\ Unfailing

\* updateTodoMetrics (l.295-307), on the list the handler leaves
updateTodoMetrics(list) ==
    /\ todoCountActive' = getTodoMetrics(list).active
    /\ todoCountCompleted' = getTodoMetrics(list).completed
    /\ todoCountByCategory' =
           [c \in todoCategories |-> getActiveCategoryCount(list, c)]


(***************************************************************************)
(* GET /api/todos (l.569-609)                                              *)
(***************************************************************************)
TextOrEmpty(v) == IF v = Null THEN <<>> ELSE v

SearchMatches_taskOnly(todo, search) ==
    Includes(ToLowerCase(TextOrEmpty(todo.task)), ToLowerCase(search))

SearchMatches(todo, search) ==
    LET searchTerm == ToLowerCase(search)
        task == ToLowerCase(TextOrEmpty(todo.task))
        description == ToLowerCase(TextOrEmpty(todo.description))
    IN  Includes(task, searchTerm) \/ Includes(description, searchTerm)

\* completed === "true" ? 1 : 0
CompletedValue(completed) == IF completed = "true" THEN 1 ELSE 0

FilterTodos(query) ==
    LET all == getAllTodos
        bySearch ==
            IF Has(query, "search") /\ query.search # <<>>
            THEN SelectSeqBy(all, {t \in Range(all) : SearchMatches(t, query.search)})
            ELSE all
        byCategory ==
            IF Has(query, "category") /\ query.category # ""
            THEN SelectSeqBy(bySearch, {t \in Range(bySearch) : t.category = query.category})
            ELSE bySearch
        byPriority ==
            IF Has(query, "priority") /\ query.priority # ""
            THEN SelectSeqBy(byCategory, {t \in Range(byCategory) : t.priority = query.priority})
            ELSE byCategory
    IN  IF Has(query, "completed")
        THEN SelectSeqBy(byPriority,
                 {t \in Range(byPriority) : t.completed = CompletedValue(query.completed)})
        ELSE byPriority

GetTodos_filteredTotals(req) ==
    /\ IsRoute(req, "GET", <<"api", "todos">>)
    /\ Observe(req)
    /\ Answer(req, 200,
              [total |-> getTodoMetrics(FilterTodos(req.query)).total,
               active |-> getTodoMetrics(FilterTodos(req.query)).active,
               completed |-> getTodoMetrics(FilterTodos(req.query)).completed,
               todos |-> FilterTodos(req.query)])
    /\ lastToggle' = NoToggle
    /\ UNCHANGED <<storeVars, bizVars, strictHits, clock, assignedIds>>

GetTodos_sortsInPlace(req) ==
    /\ IsRoute(req, "GET", <<"api", "todos">>)
    /\ Observe(req)
    /\ Answer(req, 200,
              [total |-> getTodoMetrics(todos).total,
               active |-> getTodoMetrics(todos).active,
               completed |-> getTodoMetrics(todos).completed,
               todos |-> FilterTodos(req.query)])
    /\ todos' = getAllTodos
    /\ lastToggle' = NoToggle
    /\ UNCHANGED <<nextTodoId, bizVars, strictHits, clock, assignedIds>>

GetTodos(req) ==
    /\ IsRoute(req, "GET", <<"api", "todos">>)
    /\ Observe(req)
    /\ Answer(req, 200,
              [total |-> getTodoMetrics(todos).total,
               active |-> getTodoMetrics(todos).active,
               completed |-> getTodoMetrics(todos).completed,
               todos |-> FilterTodos(req.query)])
    /\ lastToggle' = NoToggle
    /\ UNCHANGED <<storeVars, bizVars, strictHits, clock, assignedIds>>

(***************************************************************************)
(* POST /api/todos (l.611-679): validators, strictLimiter, handler         *)
(***************************************************************************)
TextField(body, k) == IF Has(body, k) THEN body[k] ELSE <<>>

WordField(body, k) == IF Has(body, k) THEN body[k] ELSE ""

ValidationErrors_noPriority(body) ==
    {f \in {"task"} :
        \/ Trim(TextField(body, "task")) = <<>>
        \/ Len(Trim(TextField(body, "task"))) > TaskMaxLen}
    \cup {f \in {"description"} :
        /\ Has(body, "description")
        /\ Len(Trim(body.description)) > DescriptionMaxLen}
    \cup {f \in {"category"} :
        \/ TrimWord(WordField(body, "category")) = ""
        \/ TrimWord(WordField(body, "category")) \notin todoCategories}
    \cup {f \in {"dueDate"} :
        /\ Has(body, "dueDate")
        /\ ~IsISO8601(body.dueDate)}

\* the fields whose validation chain reports an error
ValidationErrors(body) ==
    {f \in {"task"} :
        \/ Trim(TextField(body, "task")) = <<>>
        \/ Len(Trim(TextField(body, "task"))) > TaskMaxLen}
    \cup {f \in {"description"} :
        /\ Has(body, "description")
        /\ Len(Trim(body.description)) > DescriptionMaxLen}
    \cup {f \in {"category"} :
        \/ TrimWord(WordField(body, "category")) = ""
        \/ TrimWord(WordField(body, "category")) \notin todoCategories}
    \cup {f \in {"priority"} :
        /\ Has(body, "priority")
        /\ body.priority \notin todoPriorities}
    \cup {f \in {"dueDate"} :
        /\ Has(body, "dueDate")
        /\ ~IsISO8601(body.dueDate)}

AllocId_reuse == Len(todos) + 1

\* id: nextTodoId++
AllocId == nextTodoId

\* the entry the handler builds from the sanitized body (l.650-661)
NewEntry(body, id, now) ==
    [id |-> id,
     task |-> Xss(Trim(TextField(body, "task"))),
     description |-> IF Has(body, "description") /\ Trim(body.description) # <<>>
                     THEN Xss(Trim(body.description)) ELSE Null,
     category |-> XssWord(TrimWord(WordField(body, "category"))),
     priority |-> IF Has(body, "priority") THEN body.priority ELSE "medium",
     dueDate |-> IF Has(body, "dueDate") THEN getDateOnly(body.dueDate) ELSE NullDate,
     completed |-> 0,
     completedAt |-> NullTime,
     createdAt |-> now,
     updatedAt |-> now]

\* strictLimiter runs after the validators and before the handler (l.638, l.728)
StrictStep(req) == strictHits' = [strictHits EXCEPT ![req.client] = @ + 1]

StrictBlocks_lenient(req) ==
    HitsAfter(strictHits, req.client) > StrictLimiterMax + 1

StrictBlocks(req) == LimiterBlocks(HitsAfter(strictHits, req.client), StrictLimiterMax)

IsStrictRoute(req) ==
    \/ IsRoute(req, "POST", <<"api", "todos">>)
    \/ IsRoute(req, "DELETE", <<"api", "todos", ":id">>)

StrictLimited(req) ==
    /\ IsStrictRoute(req)
    /\ Observe(req)
    /\ StrictStep(req)
    /\ StrictBlocks(req)
    /\ Answer(req, 429, [text |-> "Too many requests from this IP, please try again later."])
    /\ lastToggle' = NoToggle
    /\ UNCHANGED <<storeVars, bizVars, clock, assignedIds>>

PostTodosInvalid(req) ==
    /\ IsRoute(req, "POST", <<"api", "todos">>)
    /\ Observe(req)
    /\ StrictStep(req)
    /\ ~StrictBlocks(req)
    /\ ValidationErrors(req.body) # {}
    /\ Answer(req, 400, [success |-> FALSE, errors |-> ValidationErrors(req.body)])
    /\ lastToggle' = NoToggle
    /\ UNCHANGED <<storeVars, bizVars, clock, assignedIds>>

PostTodos(req) ==
    /\ IsRoute(req, "POST", <<"api", "todos">>)
    /\ Observe(req)
    /\ StrictStep(req)
    /\ ~StrictBlocks(req)
    /\ ValidationErrors(req.body) = {}
    /\ LET entry == NewEntry(req.body, AllocId, clock)
       IN  /\ nextTodoId' = nextTodoId + 1
           /\ todos' = Append(todos, entry)
           /\ todoCreatedTotal' = [todoCreatedTotal EXCEPT ![entry.priority] = @ + 1]
           /\ updateTodoMetrics(todos')
           /\ assignedIds' = Append(assignedIds, entry.id)
           /\ Answer(req, 200, [success |-> TRUE, entry |-> entry])
    /\ lastToggle' = NoToggle
    /\ UNCHANGED <<todoCompletedTotal, todoDeletedTotal, clock>>


(***************************************************************************)
(* PUT /api/todos/:id/toggle (l.681-724)                                   *)
(***************************************************************************)
\* param("id").isInt({ min: 1 })
ValidId(idText) == IsIntStr(idText) /\ ParseInt(idText) >= 1

CountsAsCompletion_always(wasCompleted, newCompleted) == TRUE

\* the increment of todo_completed_total: only when the item becomes complete
CountsAsCompletion(wasCompleted, newCompleted) == newCompleted = 1 /\ wasCompleted = 0

ToggledTodo_keepsTime(todo, now) ==
    [todo EXCEPT !.completed = IF todo.completed = 1 THEN 0 ELSE 1,
                 !.completedAt = IF todo.completedAt = NullTime THEN now ELSE @,
                 !.updatedAt = now]

\* completed, completedAt and updatedAt of the toggled item (l.701-708)
ToggledTodo(todo, now) ==
    LET newCompleted == IF todo.completed = 1 THEN 0 ELSE 1
    IN  [todo EXCEPT !.completed = newCompleted,
                     !.completedAt = IF newCompleted = 1 THEN now ELSE NullTime,
                     !.updatedAt = now]

ToggleInvalid(req) ==
    /\ IsRoute(req, "PUT", <<"api", "todos", ":id", "toggle">>)
    /\ Observe(req)
    /\ ~ValidId(IdParam(req))
    /\ Answer(req, 400, [success |-> FALSE, errors |-> {"id"}])
    /\ lastToggle' = NoToggle
    /\ UNCHANGED <<storeVars, bizVars, strictHits, clock, assignedIds>>

ToggleNotFound(req) ==
    /\ IsRoute(req, "PUT", <<"api", "todos", ":id", "toggle">>)
    /\ Observe(req)
    /\ ValidId(IdParam(req))
    /\ ~HasTodo(todos, ParseInt(IdParam(req)))
    /\ Answer(req, 404, [success |-> FALSE, error |-> "Todo not found"])
    /\ lastToggle' = NoToggle
    /\ UNCHANGED <<storeVars, bizVars, strictHits, clock, assignedIds>>

Toggle(req) ==
    /\ IsRoute(req, "PUT", <<"api", "todos", ":id", "toggle">>)
    /\ Observe(req)
    /\ ValidId(IdParam(req))
    /\ HasTodo(todos, ParseInt(IdParam(req)))
    /\ LET id == ParseInt(IdParam(req))
           i == IndexOfTodo(todos, id)
           todo == ToggledTodo(todos[i], clock)
       IN  /\ todos' = [todos EXCEPT ![i] = todo]
           /\ todoCompletedTotal' =
                  IF CountsAsCompletion(todos[i].completed, todo.completed)
                  THEN [todoCompletedTotal EXCEPT ![todo.priority] = @ + 1]
                  ELSE todoCompletedTotal
           /\ updateTodoMetrics(todos')
           /\ Answer(req, 200, [success |-> TRUE, todo |-> todo])
           /\ lastToggle' = [id |-> id, wasCompleted |-> todos[i].completed,
                             counterBefore |-> todoCompletedTotal[todo.priority],
                             run |-> IF lastToggle.id = id THEN lastToggle.run + 1 ELSE 1]
    /\ UNCHANGED <<nextTodoId, todoCreatedTotal, todoDeletedTotal, strictHits,
                   clock, assignedIds>>

(***************************************************************************)
(* DELETE /api/todos/:id (l.726-758)                                       *)
(***************************************************************************)
RemoveAt_last(list, i) == SubSeq(list, 1, Len(list) - 1)

\* todos.splice(todoIndex, 1)
RemoveAt(list, i) == SubSeq(list, 1, i - 1) \o SubSeq(list, i + 1, Len(list))

DeleteInvalid(req) ==
    /\ IsRoute(req, "DELETE", <<"api", "todos", ":id">>)
    /\ Observe(req)
    /\ StrictStep(req)
    /\ ~StrictBlocks(req)
    /\ ~ValidId(IdParam(req))
    /\ Answer(req, 400, [success |-> FALSE, errors |-> {"id"}])
    /\ lastToggle' = NoToggle
    /\ UNCHANGED <<storeVars, bizVars, clock, assignedIds>>

DeleteNotFound_counted(req) ==
    /\ IsRoute(req, "DELETE", <<"api", "todos", ":id">>)
    /\ Observe(req)
    /\ StrictStep(req)
    /\ ~StrictBlocks(req)
    /\ ValidId(IdParam(req))
    /\ ~HasTodo(todos, ParseInt(IdParam(req)))
    /\ todoDeletedTotal' = todoDeletedTotal + 1
    /\ Answer(req, 404, [success |-> FALSE, error |-> "Todo not found"])
    /\ lastToggle' = NoToggle
    /\ UNCHANGED <<storeVars, todoCreatedTotal, todoCompletedTotal, todoCountActive,
                   todoCountCompleted, todoCountByCategory, clock, assignedIds>>

DeleteNotFound(req) ==
    /\ IsRoute(req, "DELETE", <<"api", "todos", ":id">>)
    /\ Observe(req)
    /\ StrictStep(req)
    /\ ~StrictBlocks(req)
    /\ ValidId(IdParam(req))
    /\ ~HasTodo(todos, ParseInt(IdParam(req)))
    /\ Answer(req, 404, [success |-> FALSE, error |-> "Todo not found"])
    /\ lastToggle' = NoToggle
    /\ UNCHANGED <<storeVars, bizVars, clock, assignedIds>>

Delete_uncreates(req) ==
    /\ IsRoute(req, "DELETE", <<"api", "todos", ":id">>)
    /\ Observe(req)
    /\ StrictStep(req)
    /\ ~StrictBlocks(req)
    /\ ValidId(IdParam(req))
    /\ HasTodo(todos, ParseInt(IdParam(req)))
    /\ todos' = RemoveAt(todos, IndexOfTodo(todos, ParseInt(IdParam(req))))
    /\ todoDeletedTotal' = todoDeletedTotal + 1
    /\ todoCreatedTotal' =
           [todoCreatedTotal EXCEPT
               ![getTodoById(todos, ParseInt(IdParam(req))).priority] = @ - 1]
    /\ updateTodoMetrics(todos')
    /\ Answer(req, 200, [success |-> TRUE])
    /\ lastToggle' = NoToggle
    /\ UNCHANGED <<nextTodoId, todoCompletedTotal, clock, assignedIds>>

Delete(req) ==
    /\ IsRoute(req, "DELETE", <<"api", "todos", ":id">>)
    /\ Observe(req)
    /\ StrictStep(req)
    /\ ~StrictBlocks(req)
    /\ ValidId(IdParam(req))
    /\ HasTodo(todos, ParseInt(IdParam(req)))
    /\ todos' = RemoveAt(todos, IndexOfTodo(todos, ParseInt(IdParam(req))))
    /\ todoDeletedTotal' = todoDeletedTotal + 1
    /\ updateTodoMetrics(todos')
    /\ Answer(req, 200, [success |-> TRUE])
    /\ lastToggle' = NoToggle
    /\ UNCHANGED <<nextTodoId, todoCreatedTotal, todoCompletedTotal, clock, assignedIds>>

(***************************************************************************)
(* GET /api/info, /api/stats, /health, /, an unmatched path (l.760-816)    *)
(***************************************************************************)
MsPerDay == 86400000

\* new Date().toISOString().split("T")[0]
Today == clock \div MsPerDay

IsOverdue(todo) ==
    /\ todo.completed = 0
    /\ todo.dueDate # NullDate
    /\ getDateOnly(todo.dueDate) # NullDate
    /\ getDateOnly(todo.dueDate).day < Today

ReadOnly == UNCHANGED <<storeVars, bizVars, strictHits, clock, assignedIds>>

GetInfo_stale(req) ==
    /\ IsRoute(req, "GET", <<"api", "info">>)
    /\ Observe(req)
    /\ Answer(req, 200,
              [version |-> "1.0.0", deploymentTime |-> 0, status |-> "running",
               totalTodos |-> getTodoMetrics(todos).total,
               activeTodos |-> getTodoMetrics(todos).active,
               completedTodos |-> getTodoMetrics(todos).completed,
               totalRequests |-> requestCount])
    /\ lastToggle' = NoToggle
    /\ ReadOnly

GetInfo(req) ==
    /\ IsRoute(req, "GET", <<"api", "info">>)
    /\ Observe(req)
    /\ Answer(req, 200,
              [version |-> "1.0.0", deploymentTime |-> 0, status |-> "running",
               totalTodos |-> getTodoMetrics(todos).total,
               activeTodos |-> getTodoMetrics(todos).active,
               completedTodos |-> getTodoMetrics(todos).completed,
               totalRequests |-> requestCount'])
    /\ lastToggle' = NoToggle
    /\ ReadOnly

GetStats(req) ==
    /\ IsRoute(req, "GET", <<"api", "stats">>)
    /\ Observe(req)
    /\ Answer(req, 200,
              [byCategory |-> [c \in todoCategories |-> getActiveCategoryCount(todos, c)],
               byPriority |-> [p \in todoPriorities |-> getActivePriorityCount(todos, p)],
               overdue |-> Cardinality({i \in 1..Len(todos) : IsOverdue(todos[i])})])
    /\ lastToggle' = NoToggle
    /\ ReadOnly

GetHealth_degraded(req) ==
    /\ IsRoute(req, "GET", <<"health">>)
    /\ Observe(req)
    /\ Answer(req, IF todos = <<>> THEN 200 ELSE 503,
              [status |-> IF todos = <<>> THEN "healthy" ELSE "degraded"])
    /\ lastToggle' = NoToggle
    /\ ReadOnly

GetHealth(req) ==
    /\ IsRoute(req, "GET", <<"health">>)
    /\ Observe(req)
    /\ Answer(req, 200, [status |-> "healthy"])
    /\ lastToggle' = NoToggle
    /\ ReadOnly

GetRoot(req) ==
    /\ IsRoute(req, "GET", <<>>)
    /\ Observe(req)
    /\ Answer(req, 200, [html |-> "Todo List App"])
    /\ lastToggle' = NoToggle
    /\ ReadOnly

\* no route matches: Express's final handler answers 404
NotFound(req) ==
    /\ ~Matched(req)
    /\ Observe(req)
    /\ Answer(req, 404, [html |-> "Cannot " \o req.method])
    /\ lastToggle' = NoToggle
    /\ ReadOnly

(***************************************************************************)
(* GET /metrics (l.818-821): the handler is async and suspends at          *)
(* await register.metrics(); the client may disconnect meanwhile.          *)
(***************************************************************************)
GetMetrics(req) ==
    /\ IsRoute(req, "GET", <<"metrics">>)
    /\ Observe(req)
    /\ open' = open \cup {OpenResponse(req, RouteLabel(req), 200, TRUE, "awaiting", FALSE)}
    /\ Unfailing
    /\ lastToggle' = NoToggle
    /\ UNCHANGED resp
    /\ ReadOnly

StepVars == <<storeVars, bizVars, limitVars, requestCount, requestNums, clock, arrived,
              assignedIds, lastToggle, faultLog, sheetVars>>

\* the connection drops: the socket is destroyed and "close" is emitted, for
\* which the middleware registers no listener
Abort(o) ==
    /\ o \in open
    /\ o.phase = "awaiting"
    /\ ~o.destroyed
    /\ open' = (open \ {o}) \cup {[o EXCEPT !.destroyed = TRUE]}
    /\ UNCHANGED <<StepVars, httpVars, httpRequestsInFlight, resp, finished, stranded>>

\* register.metrics() resolves and the handler calls res.end(text).  On a
\* destroyed socket the write is dropped and "finish" is never emitted.
MetricsResume(o) ==
    /\ o \in open
    /\ o.phase = "awaiting"
    /\ open' = IF o.destroyed THEN open \ {o}
               ELSE (open \ {o}) \cup {[o EXCEPT !.phase = "ended", !.held = NoRequest]}
    /\ resp' = IF o.destroyed THEN resp
               ELSE [seq |-> o.seq, req |-> o.held, status |-> o.status,
                     body |-> [text |-> "metrics"]]
    /\ stranded' = IF o.destroyed THEN BagInc(stranded, <<o.method, o.routeKey>>)
                   ELSE stranded
    /\ UNCHANGED <<StepVars, httpVars, httpRequestsInFlight, finished>>

(***************************************************************************)
(* The response is handed to the operating system: "finish" is emitted and *)
(* the completion hook, if attached, runs (l.259-290).                     *)
(***************************************************************************)
CompletionHook_serverErrors(o, cpuTime) ==
    LET key == <<o.method, o.route, o.status>>
    IN  /\ httpRequestsInFlight' = GaugeDec(httpRequestsInFlight, <<o.method, o.routeKey>>)
        /\ httpRequestDuration' = BagInc(httpRequestDuration, key)
        /\ httpRequestTotal' = BagInc(httpRequestTotal, key)
        /\ httpRequestCpuTime' = BagIncBy(httpRequestCpuTime, key, cpuTime)
        /\ httpErrorsTotal' = IF o.status >= 500 THEN BagInc(httpErrorsTotal, key)
                              ELSE httpErrorsTotal
        /\ httpRequestSizeBytes' =
               IF o.requestSize > 0 THEN BagInc(httpRequestSizeBytes, <<o.method, o.route>>)
               ELSE httpRequestSizeBytes
        /\ httpResponseSizeBytes' =
               IF o.sized THEN BagInc(httpResponseSizeBytes, key)
               ELSE httpResponseSizeBytes

CompletionHook_decByRoute(o, cpuTime) ==
    LET key == <<o.method, o.route, o.status>>
    IN  /\ httpRequestsInFlight' = GaugeDec(httpRequestsInFlight, <<o.method, o.route>>)
        /\ httpRequestDuration' = BagInc(httpRequestDuration, key)
        /\ httpRequestTotal' = BagInc(httpRequestTotal, key)
        /\ httpRequestCpuTime' = BagIncBy(httpRequestCpuTime, key, cpuTime)
        /\ httpErrorsTotal' = IF o.status >= 400 THEN BagInc(httpErrorsTotal, key)
                              ELSE httpErrorsTotal
        /\ httpRequestSizeBytes' =
               IF o.requestSize > 0 THEN BagInc(httpRequestSizeBytes, <<o.method, o.route>>)
               ELSE httpRequestSizeBytes
        /\ httpResponseSizeBytes' =
               IF o.sized THEN BagInc(httpResponseSizeBytes, key)
               ELSE httpResponseSizeBytes

CompletionHook(o, cpuTime) ==
    LET key == <<o.method, o.route, o.status>>
    IN  /\ httpRequestsInFlight' = GaugeDec(httpRequestsInFlight, <<o.method, o.routeKey>>)
        /\ httpRequestDuration' = BagInc(httpRequestDuration, key)
        /\ httpRequestTotal' = BagInc(httpRequestTotal, key)
        /\ httpRequestCpuTime' = BagIncBy(httpRequestCpuTime, key, cpuTime)
        /\ httpErrorsTotal' = IF o.status >= 400 THEN BagInc(httpErrorsTotal, key)
                              ELSE httpErrorsTotal
        /\ httpRequestSizeBytes' =
               IF o.requestSize > 0 THEN BagInc(httpRequestSizeBytes, <<o.method, o.route>>)
               ELSE httpRequestSizeBytes
        /\ httpResponseSizeBytes' =
               IF o.sized THEN BagInc(httpResponseSizeBytes, key)
               ELSE httpResponseSizeBytes

Finish(o, cpuTime) ==
    /\ o \in open
    /\ o.phase = "ended"
    /\ open' = open \ {o}
    /\ finished' = finished + 1
    /\ IF o.hooked THEN CompletionHook(o, cpuTime)
       ELSE UNCHANGED <<httpVars, httpRequestsInFlight>>
    /\ UNCHANGED <<StepVars, resp, stranded>>

(***************************************************************************)
(* The logger (src/unnamed/part_000 l.16-34).  logInfo and logError read    *)
(* the trace context and call logger.info / logger.error with no try/catch: *)
(* they return when the emission succeeds and raise what it raises.         *)
(***************************************************************************)
Emissions == {"ok", "fails"}

logInfo_swallowed(emission) == "returns"

logInfo(emission) == IF emission = "ok" THEN "returns" ELSE "raises"

logError(emission) == IF emission = "ok" THEN "returns" ELSE "raises"

(***************************************************************************)
(* Errors thrown while a request is handled.  A handler with try/catch      *)
(* calls logError and answers 500 itself; an error that leaves the handler  *)
(* (no try/catch, or logError raising inside the catch) reaches Express's   *)
(* final handler, since the application registers no error middleware: it   *)
(* answers 500 with an HTML page, which shows the error's stack unless      *)
(* NODE_ENV is "production" (the repository sets NODE_ENV nowhere).         *)
(***************************************************************************)
Causes == {"handler", "log"}

\* Express's final handler
ErrorPage(production) ==
    [html |-> IF production THEN "Internal Server Error" ELSE "Error: message and stack"]

\* the error leaves the route handler, after the finish hook was attached
Uncaught(req, cause, production) ==
    /\ Respond(req, 500, ErrorPage(production))
    /\ faultLog' = [faultLog EXCEPT !.handlerThrows = @ + 1, !.cause = cause]

\* catch (err) { logError(..., { error: err.message }); res.status(500).json(payload) }
Caught(req, cause, emission, production, payload) ==
    IF logError(emission) = "returns"
    THEN /\ Respond(req, 500, payload)
         /\ faultLog' = [faultLog EXCEPT !.handlerThrows = @ + 1, !.logged = @ + 1,
                                         !.cause = cause]
    ELSE Uncaught(req, cause, production)

\* the middleware's own logInfo (l.243) raises: requestCount is already
\* incremented, the gauge is not, and no finish hook is attached
ObserveFails(req, production) ==
    /\ Gateway(req) = "pass"
    /\ LimiterStep(req)
    /\ logInfo("fails") = "raises"
    /\ arrived' = arrived + 1
    /\ requestCount' = NextRequestNum(requestCount)
    /\ requestNums' = Append(requestNums, requestCount')
    /\ resp' = Response(req, 500, ErrorPage(production))
    /\ open' = open \cup {OpenResponse(req, req.path, 500, FALSE, "ended", TRUE)}
    /\ faultLog' = [faultLog EXCEPT !.cause = "log"]
    /\ lastToggle' = NoToggle
    /\ UNCHANGED <<storeVars, bizVars, httpVars, strictHits, httpRequestsInFlight,
                   clock, finished, stranded, assignedIds, sheetVars>>

FaultPoints == {"xss", "log"}

\* POST /api/todos, an error inside the try block (l.649-677): at "xss" while
\* the entry is built, after nextTodoId++ (l.651-654); at "log" in logInfo
\* (l.668), after the entry was pushed and counted
PostTodosFails(req, at, emission, production) ==
    /\ IsRoute(req, "POST", <<"api", "todos">>)
    /\ Observe(req)
    /\ StrictStep(req)
    /\ ~StrictBlocks(req)
    /\ ValidationErrors(req.body) = {}
    /\ at = "log" => logInfo("fails") = "raises"
    /\ nextTodoId' = nextTodoId + 1
    /\ LET entry == NewEntry(req.body, AllocId, clock)
       IN  IF at = "xss"
           THEN UNCHANGED <<todos, bizVars, assignedIds>>
           ELSE /\ todos' = Append(todos, entry)
                /\ todoCreatedTotal' = [todoCreatedTotal EXCEPT ![entry.priority] = @ + 1]
                /\ updateTodoMetrics(todos')
                /\ assignedIds' = Append(assignedIds, entry.id)
                /\ UNCHANGED <<todoCompletedTotal, todoDeletedTotal>>
    /\ Caught(req, IF at = "log" THEN "log" ELSE "handler", emission, production,
              [success |-> FALSE, error |-> "Failed to create todo"])
    /\ lastToggle' = NoToggle
    /\ UNCHANGED clock

\* GET /api/todos, logInfo (l.595) raises inside the try block
GetTodosFails(req, emission, production) ==
    /\ IsRoute(req, "GET", <<"api", "todos">>)
    /\ Observe(req)
    /\ logInfo("fails") = "raises"
    /\ Caught(req, "log", emission, production,
              [success |-> FALSE, error |-> "Failed to fetch todos"])
    /\ lastToggle' = NoToggle
    /\ ReadOnly

\* PUT /api/todos/:id/toggle, logInfo (l.715) raises after the item was toggled
ToggleFails(req, emission, production) ==
    /\ IsRoute(req, "PUT", <<"api", "todos", ":id", "toggle">>)
    /\ Observe(req)
    /\ ValidId(IdParam(req))
    /\ HasTodo(todos, ParseInt(IdParam(req)))
    /\ logInfo("fails") = "raises"
    /\ LET i == IndexOfTodo(todos, ParseInt(IdParam(req)))
           todo == ToggledTodo(todos[i], clock)
       IN  /\ todos' = [todos EXCEPT ![i] = todo]
           /\ todoCompletedTotal' =
                  IF CountsAsCompletion(todos[i].completed, todo.completed)
                  THEN [todoCompletedTotal EXCEPT ![todo.priority] = @ + 1]
                  ELSE todoCompletedTotal
           /\ updateTodoMetrics(todos')
    /\ Caught(req, "log", emission, production,
              [success |-> FALSE, error |-> "Failed to toggle todo"])
    /\ lastToggle' = NoToggle
    /\ UNCHANGED <<nextTodoId, todoCreatedTotal, todoDeletedTotal, strictHits,
                   clock, assignedIds>>

\* DELETE /api/todos/:id, logInfo (l.751) raises after the item was removed
DeleteFails(req, emission, production) ==
    /\ IsRoute(req, "DELETE", <<"api", "todos", ":id">>)
    /\ Observe(req)
    /\ StrictStep(req)
    /\ ~StrictBlocks(req)
    /\ ValidId(IdParam(req))
    /\ HasTodo(todos, ParseInt(IdParam(req)))
    /\ logInfo("fails") = "raises"
    /\ todos' = RemoveAt(todos, IndexOfTodo(todos, ParseInt(IdParam(req))))
    /\ todoDeletedTotal' = todoDeletedTotal + 1
    /\ updateTodoMetrics(todos')
    /\ Caught(req, "log", emission, production,
              [success |-> FALSE, error |-> "Failed to delete todo"])
    /\ lastToggle' = NoToggle
    /\ UNCHANGED <<nextTodoId, todoCreatedTotal, todoCompletedTotal, clock, assignedIds>>

\* GET /api/info, logInfo (l.763) raises inside the try block
GetInfoFails(req, emission, production) ==
    /\ IsRoute(req, "GET", <<"api", "info">>)
    /\ Observe(req)
    /\ logInfo("fails") = "raises"
    /\ Caught(req, "log", emission, production, [error |-> "Failed to get system info"])
    /\ lastToggle' = NoToggle
    /\ ReadOnly

\* GET /api/stats, an error inside the try block (l.780-802)
GetStatsFails(req, emission, production) ==
    /\ IsRoute(req, "GET", <<"api", "stats">>)
    /\ Observe(req)
    /\ Caught(req, "handler", emission, production, [error |-> "Failed to get statistics"])
    /\ lastToggle' = NoToggle
    /\ ReadOnly

\* GET /health, logInfo (l.810) raises: the handler has no try/catch
GetHealthFails(req, production) ==
    /\ IsRoute(req, "GET", <<"health">>)
    /\ Observe(req)
    /\ logInfo("fails") = "raises"
    /\ Uncaught(req, "log", production)
    /\ lastToggle' = NoToggle
    /\ ReadOnly

\* GET /metrics, register.metrics() rejects while the handler awaits it
\* (l.820).  The handler is an async function without try/catch: Express 5
\* passes the rejection to the final handler; Express 4 ignores the returned
\* promise, so the rejection is unhandled and the request is never answered
\* (Node 20 ends the process on an unhandled rejection).  The repository
\* pins no Express version.
ExpressMajors == {4, 5}

MetricsFails(o, express, production) ==
    /\ o \in open
    /\ o.phase = "awaiting"
    /\ ~o.destroyed
    /\ open' = IF express = 5
               THEN (open \ {o}) \cup {[o EXCEPT !.phase = "ended", !.status = 500,
                                                 !.sized = TRUE, !.held = NoRequest]}
               ELSE open \ {o}
    /\ resp' = IF express = 5
               THEN [seq |-> o.seq, req |-> o.held, status |-> 500,
                     body |-> ErrorPage(production)]
               ELSE resp
    /\ faultLog' = [faultLog EXCEPT !.handlerThrows = @ + 1, !.cause = "handler"]
    /\ stranded' = IF express = 5 THEN stranded
                   ELSE BagInc(stranded, <<o.method, o.routeKey>>)
    /\ UNCHANGED <<storeVars, bizVars, limitVars, requestCount, requestNums, clock, arrived,
                   assignedIds, lastToggle, httpVars, httpRequestsInFlight, finished,
                   sheetVars>>

(***************************************************************************)
(* Time.                                                                   *)
(***************************************************************************)
Tick ==
    /\ clock < MaxClock
    /\ clock' = clock + 1
    /\ UNCHANGED <<storeVars, bizVars, httpVars, limitVars, requestCount, requestNums,
                   httpRequestsInFlight, open, resp, arrived, finished, stranded,
                   assignedIds, lastToggle, faultLog, sheetVars>>

\* the client's window of limiter ends (windowMs, l.217): its hits are dropped
LimiterWindowExpire(c) ==
    /\ limiterHits[c] > 0
    /\ limiterHits' = [limiterHits EXCEPT ![c] = 0]
    /\ windowLog' = [windowLog EXCEPT ![c] = <<>>]
    /\ UNCHANGED <<storeVars, bizVars, httpVars, strictHits, requestCount,
                   requestNums, httpRequestsInFlight, clock, open, resp, arrived,
                   finished, stranded, assignedIds, lastToggle, faultLog, sheetVars>>

\* the client's window of strictLimiter ends (windowMs, l.225)
StrictWindowExpire(c) ==
    /\ strictHits[c] > 0
    /\ strictHits' = [strictHits EXCEPT ![c] = 0]
    /\ UNCHANGED <<storeVars, bizVars, httpVars, limiterHits, windowLog, requestCount,
                   requestNums, httpRequestsInFlight, clock, open, resp, arrived,
                   finished, stranded, assignedIds, lastToggle, faultLog, sheetVars>>


(***************************************************************************)
(* The initial state: the process has just started (l.139-141).            *)
(***************************************************************************)
Clients == {"c1", "c2"}

NoResponse == [seq |-> 0, req |-> NoRequest, status |-> 0, body |-> NoFields]

Init ==
    /\ todos = <<>>
    /\ nextTodoId = 1
    /\ requestCount = 0
    /\ todoCreatedTotal = [p \in todoPriorities |-> 0]
    /\ todoCompletedTotal = [p \in todoPriorities |-> 0]
    /\ todoDeletedTotal = 0
    /\ todoCountActive = 0
    /\ todoCountCompleted = 0
    /\ todoCountByCategory = [c \in todoCategories |-> 0]
    /\ httpRequestsInFlight = <<>>
    /\ httpRequestTotal = EmptyBag
    /\ httpErrorsTotal = EmptyBag
    /\ httpRequestDuration = EmptyBag
    /\ httpRequestCpuTime = EmptyBag
    /\ httpRequestSizeBytes = EmptyBag
    /\ httpResponseSizeBytes = EmptyBag
    /\ limiterHits = [c \in Clients |-> 0]
    /\ strictHits = [c \in Clients |-> 0]
    /\ clock = 0
    /\ open = {}
    /\ resp = NoResponse
    /\ arrived = 0
    /\ finished = 0
    /\ assignedIds = <<>>
    /\ lastToggle = NoToggle
    /\ windowLog = [c \in Clients |-> <<>>]
    /\ faultLog = NoFault
    /\ requestNums = <<>>
    /\ stranded = EmptyBag
    /\ timesheets = <<>>
    /\ timesheetSubmissionsTotal = EmptyBag
    /\ timesheetHoursTotal = EmptyBag
    /\ timesheetHoursPerEntry = EmptyBag
    /\ timesheetCount = 0

(***************************************************************************)
(* Requests the clients send.                                              *)
(***************************************************************************)
Get(client, path, query) == Req(client, "GET", path, query, NoFields, 0, FALSE)

Post(client, body) == Req(client, "POST", <<"api", "todos">>, NoFields, body, 64, FALSE)

Put(client, id) == Req(client, "PUT", <<"api", "todos", id, "toggle">>, NoFields, NoFields, 0, FALSE)

Del(client, id) == Req(client, "DELETE", <<"api", "todos", id>>, NoFields, NoFields, 0, FALSE)

IdTexts == {"1", "2", "abc"}

BodyLow == [task |-> <<"a">>, category |-> "work", priority |-> "low"]

BodyHigh == [task |-> <<"b">>, category |-> "personal", priority |-> "high"]

BodyNoTask == [category |-> "work"]

CrudRequests ==
    {Post("c1", b) : b \in {BodyLow, BodyNoTask}} \cup {Put("c1", "1")}

StoreRequests ==
    {Post("c1", b) : b \in {BodyLow, BodyHigh, BodyNoTask}}
    \cup {Put("c1", id) : id \in IdTexts}
    \cup {Del("c1", id) : id \in IdTexts}

PageRequests ==
    {Get("c1", path, NoFields) : path \in {<<"health">>, <<"metrics">>, <<"nope">>}}

BadBodyRequests ==
    {Req("c1", "POST", <<"api", "todos">>, NoFields, BodyLow, BodyLimitBytes + 1, FALSE),
     Req("c1", "POST", <<"api", "todos">>, NoFields, NoFields, 64, TRUE)}

CpuTimes == {0, 1}

MayArrive == arrived < MaxRequests /\ Cardinality(open) < MaxOpen

(***************************************************************************)
(* Spec: the request lifecycle over every route.                           *)
(***************************************************************************)
Next ==
    \/ \E req \in BadBodyRequests : MayArrive /\ BodyRejected(req)
    \/ \E req \in PageRequests : MayArrive /\ GetHealth(req)
    \/ \E req \in PageRequests : MayArrive /\ NotFound(req)
    \/ \E req \in PageRequests : MayArrive /\ GetMetrics(req)
    \/ \E req \in CrudRequests : MayArrive /\ PostTodosInvalid(req)
    \/ \E req \in CrudRequests : MayArrive /\ PostTodos(req)
    \/ \E req \in CrudRequests : MayArrive /\ ToggleNotFound(req)
    \/ \E req \in CrudRequests : MayArrive /\ Toggle(req)
    \/ \E o \in open : Abort(o)
    \/ \E o \in open : MetricsResume(o)
    \/ \E o \in open, cpuTime \in CpuTimes : Finish(o, cpuTime)

Spec == Init /\ [][Next]_vars


(***************************************************************************)
(* SpecStore: create, toggle and delete on the item store.                 *)
(***************************************************************************)
MayArriveStore == arrived < MaxStoreRequests /\ Cardinality(open) < MaxOpen

NextStore ==
    \/ \E req \in StoreRequests : MayArriveStore /\ PostTodosInvalid(req)
    \/ \E req \in StoreRequests : MayArriveStore /\ PostTodos(req)
    \/ \E req \in StoreRequests : MayArriveStore /\ ToggleInvalid(req)
    \/ \E req \in StoreRequests : MayArriveStore /\ ToggleNotFound(req)
    \/ \E req \in StoreRequests : MayArriveStore /\ Toggle(req)
    \/ \E req \in StoreRequests : MayArriveStore /\ DeleteInvalid(req)
    \/ \E req \in StoreRequests : MayArriveStore /\ DeleteNotFound(req)
    \/ \E req \in StoreRequests : MayArriveStore /\ Delete(req)
    \/ \E o \in open : Finish(o, 0)

SpecStore == Init /\ [][NextStore]_vars


(***************************************************************************)
(* Properties of the request lifecycle (Spec).                             *)
(***************************************************************************)
\* C1: whatever the exit path of a request (normal response, handler error,
\* client disconnect), http_requests_in_flight is incremented once and
\* decremented once, so once no request is in progress every series of the
\* gauge is back at the value it had before the requests, which is 0.
C1_InFlightBalanced ==
    open = {} => \A k \in DOMAIN httpRequestsInFlight : httpRequestsInFlight[k] = 0

\* C2: every inbound request whose response has been sent, whatever its
\* outcome (429 of the limiter, 413 or 400 of the body parser included), has
\* produced exactly one increment of http_requests_total and exactly one
\* observation of http_request_duration_seconds.
C2_OneCountPerRequest ==
    /\ BagCardinality(httpRequestTotal) = finished
    /\ BagCardinality(httpRequestDuration) = finished

(***************************************************************************)
(* Properties of the item store (SpecStore).                               *)
(***************************************************************************)
IsHandled == arrived' = arrived + 1 /\ resp'.seq = arrived'

CompletedOf(list, id) == getTodoById(list, id).completed

\* C3: two consecutive successful toggles of one item return it to its
\* original completed state, and across the two todo_completed_total of the
\* item's priority grows by exactly 1.
C3_ToggleTwice ==
    [][(/\ IsHandled
        /\ lastToggle.run >= 1
        /\ lastToggle'.run = lastToggle.run + 1)
       => (/\ CompletedOf(todos', lastToggle.id) = lastToggle.wasCompleted
           /\ todoCompletedTotal'[getTodoById(todos', lastToggle.id).priority]
                  = lastToggle.counterBefore + 1)]_vars

C3_Witness ==
    /\ lastToggle.run = 2
    /\ resp.status = 200
    /\ CompletedOf(todos, lastToggle.id) = 0
    /\ todoCompletedTotal[getTodoById(todos, lastToggle.id).priority] = 1

IsDeleteOf(req) == req.method = "DELETE" /\ PathMatches(req.path, <<"api", "todos", ":id">>)

C5_GaugesMatchStore ==
    /\ todoCountActive = Cardinality({i \in 1..Len(todos) : todos[i].completed = 0})
    /\ todoCountCompleted = Cardinality({i \in 1..Len(todos) : todos[i].completed # 0})
    /\ \A c \in todoCategories :
           todoCountByCategory[c] =
               Cardinality({i \in 1..Len(todos) :
                   todos[i].completed = 0 /\ todos[i].category = c})

C5_Witness ==
    /\ todoCountActive = 1
    /\ todoCountCompleted = 1
    /\ todoCountByCategory["work"] = 1
    /\ todoCountByCategory["personal"] = 0
    /\ \E i \in 1..Len(todos) : todos[i].category = "personal"

\* C6: ids are assigned 1, 2, 3, ... in the order of the successful creates:
\* each is greater than every id assigned before, the id of a deleted item is
\* not assigned again, a create that fails validation consumes no id, and
\* the stored items carry distinct assigned ids.
C6_IdsMonotonic ==
    /\ \A i \in 1..Len(assignedIds) : assignedIds[i] = i
    /\ nextTodoId = Len(assignedIds) + 1
    /\ \A i \in 1..Len(todos) : todos[i].id \in Range(assignedIds)
    /\ \A i, j \in 1..Len(todos) : i # j => todos[i].id # todos[j].id

C6_Witness ==
    /\ todoDeletedTotal = 1
    /\ assignedIds = <<1, 2>>
    /\ Len(todos) = 1
    /\ todos[1].id = 2


(***************************************************************************)
(* SpecList: GET /api/todos with filters, over stores built by creates and *)
(* toggles at equal and at different clock readings.                       *)
(***************************************************************************)
Opt(k, values) == {NoFields} \cup {k :> v : v \in values}

FilterQueries ==
    {s @@ c @@ p @@ d :
        s \in Opt("search", {<<"a">>, <<"A", "B">>}),
        c \in Opt("category", {"work"}),
        p \in Opt("priority", {"high"}),
        d \in Opt("completed", {"true", "false"})}

EmptyValueQueries ==
    {e @@ p :
        e \in {"search" :> <<>>, "category" :> "", "priority" :> "", "completed" :> ""},
        p \in Opt("priority", {"high"})}

ListQueries == FilterQueries \cup EmptyValueQueries

ListBodies ==
    {[task |-> <<"A", "b">>, category |-> "work", priority |-> "high"],
     [task |-> <<"b">>, description |-> <<"c", "a", "B">>, category |-> "personal"]}

ListRequests ==
    {Post("c1", b) : b \in ListBodies}
    \cup {Put("c1", "1")}
    \cup {Get("c1", <<"api", "todos">>, q) : q \in ListQueries}

NextList ==
    \/ \E req \in ListRequests : MayArrive /\ PostTodos(req)
    \/ \E req \in ListRequests : MayArrive /\ Toggle(req)
    \/ \E req \in ListRequests : MayArrive /\ GetTodos(req)
    \/ \E o \in open : Finish(o, 0)
    \/ Tick

SpecList == Init /\ [][NextList]_vars

IsListResponse ==
    /\ resp.req.method = "GET"
    /\ resp.req.path = <<"api", "todos">>
    /\ resp.status = 200

\* C7: GET /api/todos lists the items newest-created-first: of any two items
\* in the response the one created later (the one with the greater id)
\* comes first, also when both were created at the same clock reading.
C7_NewestFirst ==
    IsListResponse =>
        \A i, j \in 1..Len(resp.body.todos) :
            i < j => resp.body.todos[i].id > resp.body.todos[j].id

\* a case-insensitive substring match, letter by letter
SameLetter(c, d) ==
    \/ c = d
    \/ {c, d} = {"a", "A"}
    \/ {c, d} = {"b", "B"}

ContainsIgnoringCase(text, term) ==
    \E k \in 0..(Len(text) - Len(term)) :
        \A j \in 1..Len(term) : SameLetter(text[k + j], term[j])

Supplied(query, k) ==
    /\ Has(query, k)
    /\ IF k = "search" THEN query[k] # <<>> ELSE query[k] # ""

SatisfiesAll(todo, query) ==
    /\ Supplied(query, "search") =>
           \/ ContainsIgnoringCase(todo.task, query.search)
           \/ (todo.description # Null /\ ContainsIgnoringCase(todo.description, query.search))
    /\ Supplied(query, "category") => todo.category = query.category
    /\ Supplied(query, "priority") => todo.priority = query.priority
    /\ Supplied(query, "completed") =>
           /\ query.completed = "true" => todo.completed = 1
           /\ query.completed = "false" => todo.completed = 0

\* C8: GET /api/todos answers with exactly the stored items that satisfy
\* every supplied filter (search: case-insensitive substring of task or
\* description; category, priority: exact; completed=true / false: complete /
\* incomplete), each once.  Covered: queries whose completed, if supplied, is
\* "true" or "false".
C8_FiltersConjunction ==
    (/\ IsListResponse
     /\ resp.seq = arrived
     /\ Has(resp.req.query, "completed") => resp.req.query.completed \in {"true", "false"})
    => (/\ Range(resp.body.todos) = {t \in Range(todos) : SatisfiesAll(t, resp.req.query)}
        /\ Len(resp.body.todos) = Cardinality(Range(resp.body.todos)))

C8_Witness ==
    /\ IsListResponse
    /\ resp.seq = arrived
    /\ Supplied(resp.req.query, "search")
    /\ Supplied(resp.req.query, "category")
    /\ Supplied(resp.req.query, "completed")
    /\ Len(resp.body.todos) = 1
    /\ Len(todos) = 2


(***************************************************************************)
(* SpecRoundTrip: POST /api/todos on an empty store, then GET /api/todos.  *)
(***************************************************************************)
DateOnly(day) == [kind |-> "date", day |-> day]

DateTime(day, hour, offset) ==
    [kind |-> "datetime", day |-> day, hour |-> hour, offset |-> offset]

\* the valid bodies of the model: every combination of the fields' values
RoundTripBodies ==
    {t @@ d @@ c @@ p @@ due :
        t \in {"task" :> v : v \in {<<"a">>, <<" ", "a">>, <<"<", "b">>}},
        d \in Opt("description", {<<>>, <<"b", " ">>, <<"<">>}),
        c \in {"category" :> w : w \in {"work", " work "}},
        p \in Opt("priority", {"high"}),
        due \in Opt("dueDate", {DateOnly(1), DateTime(1, 10, 0), DateTime(1, 23, -5)})}

RoundTripRequests ==
    {Post("c1", b) : b \in RoundTripBodies} \cup {Get("c1", <<"api", "todos">>, NoFields)}

NextRoundTrip ==
    \/ \E req \in RoundTripRequests : MayArrive /\ todos = <<>> /\ PostTodos(req)
    \/ \E req \in RoundTripRequests : MayArrive /\ GetTodos(req)
    \/ \E o \in open : Finish(o, 0)

SpecRoundTrip == Init /\ [][NextRoundTrip]_vars

\* the step is a GET /api/todos that follows a successful POST on an empty store
IsRoundTrip ==
    /\ IsHandled
    /\ resp.seq = arrived
    /\ resp.req.method = "POST"
    /\ resp.status = 200
    /\ Len(todos) = 1
    /\ resp'.req.method = "GET"
    /\ resp'.req.path = <<"api", "todos">>
    /\ resp'.req.query = NoFields
    /\ resp'.status = 200

FieldsAsSubmitted(entry, body) ==
    /\ entry.task = body.task
    /\ entry.category = body.category
    /\ IF Has(body, "description") THEN entry.description = body.description
       ELSE entry.description = Null
    /\ IF Has(body, "priority") THEN entry.priority = body.priority
       ELSE entry.priority = "medium"
    /\ IF Has(body, "dueDate") THEN entry.dueDate = body.dueDate
       ELSE entry.dueDate = NullDate

StripBlanks(s) ==
    LET inked == {i \in 1..Len(s) : s[i] # " "}
    IN  IF inked = {} THEN <<>>
        ELSE SubSeq(s, CHOOSE i \in inked : \A j \in inked : i <= j,
                       CHOOSE i \in inked : \A j \in inked : i >= j)

\* the text with every "&lt;" read back as "<"
RECURSIVE Unescape(_)
Unescape(s) ==
    IF s = <<>> THEN <<>>
    ELSE IF Len(s) >= 4 /\ SubSeq(s, 1, 4) = <<"&", "l", "t", ";">>
         THEN <<"<">> \o Unescape(SubSeq(s, 5, Len(s)))
         ELSE <<Head(s)>> \o Unescape(Tail(s))

Escaped(stored, submitted) ==
    /\ \A i \in 1..Len(stored) : stored[i] # "<"
    /\ Unescape(stored) = StripBlanks(submitted)

\* the calendar day, in UTC, of a submitted due date
UtcDay(d) == IF d.kind = "date" THEN d.day ELSE (d.day * 24 + d.hour - d.offset) \div 24

IsPlainText(s) == StripBlanks(s) = s /\ \A i \in 1..Len(s) : s[i] # "<"

IsPlainBody(body) ==
    /\ IsPlainText(body.task)
    /\ body.category \in todoCategories
    /\ Has(body, "description") => body.description # <<>> /\ IsPlainText(body.description)
    /\ Has(body, "dueDate") => body.dueDate.kind = "date"

FieldsSanitized(entry, body) ==
    /\ Escaped(entry.task, body.task)
    /\ entry.category \in todoCategories
    /\ body.category \in {entry.category, " " \o entry.category \o " "}
    /\ IF Has(body, "description") /\ StripBlanks(body.description) # <<>>
       THEN Escaped(entry.description, body.description)
       ELSE entry.description = Null
    /\ IF Has(body, "priority") THEN entry.priority = body.priority
       ELSE entry.priority = "medium"
    /\ IF Has(body, "dueDate") THEN entry.dueDate = DateOnly(UtcDay(body.dueDate))
       ELSE entry.dueDate = NullDate

InfoRequest(c) == Get(c, <<"api", "info">>, NoFields)

MayArriveLimited(c) ==
    /\ arrived < LimiterMax + MaxLimiterExtra
    /\ open = {}
    /\ c = "c2" => limiterHits[c] = 0

NextLimiter ==
    \/ \E c \in Clients : MayArriveLimited(c) /\ GetInfo(InfoRequest(c))
    \/ \E c \in Clients : MayArriveLimited(c) /\ RateLimited(InfoRequest(c))
    \/ LimiterWindowExpire("c1")
    \/ \E o \in open : Finish(o, 0)

SpecLimiter == Init /\ [][NextLimiter]_vars

\* C10: of the requests a client sends to /api/ paths in one window, the
\* first 100 pass the limiter and reach the application and every further
\* one is answered 429; a fresh window starts with a count of 0, so the
\* client's requests pass again.
C10_HundredPerWindow ==
    \A c \in Clients :
        /\ \A i \in 1..Len(windowLog[c]) : windowLog[c][i] = (i <= 100)
        /\ limiterHits[c] = Len(windowLog[c])
        /\ (resp.seq = arrived /\ resp.req.client = c /\ Len(windowLog[c]) > 0) =>
               /\ Len(windowLog[c]) <= 100 => resp.status = 200
               /\ Len(windowLog[c]) > 100 => resp.status = 429

C10_Witness ==
    /\ arrived > requestCount
    /\ resp.seq = arrived
    /\ resp.req.client = "c1"
    /\ resp.status = 200
    /\ Len(windowLog["c1"]) = 1
    /\ limiterHits["c2"] = 1


(***************************************************************************)
(* SpecFault: requests to every route, handled with nothing failing or     *)
(* with an error thrown inside the handler or by a log call.               *)
(***************************************************************************)
FaultRequests ==
    {Post("c1", BodyLow), Put("c1", "1"), Del("c1", "1"),
     Get("c1", <<"api", "todos">>, NoFields), Get("c1", <<"api", "info">>, NoFields),
     Get("c1", <<"api", "stats">>, NoFields), Get("c1", <<"health">>, NoFields),
     Get("c1", <<"metrics">>, NoFields)}

MayArriveFault == arrived < MaxFaultRequests /\ Cardinality(open) < MaxOpen

NextFault ==
    \/ \E req \in FaultRequests : MayArriveFault /\ PostTodos(req)
    \/ \E req \in FaultRequests : MayArriveFault /\ GetHealth(req)
    \/ \E req \in FaultRequests : MayArriveFault /\ GetInfo(req)
    \/ \E req \in FaultRequests : MayArriveFault /\ GetMetrics(req)
    \/ \E req \in FaultRequests, at \in FaultPoints, emission \in Emissions,
          production \in BOOLEAN :
           MayArriveFault /\ PostTodosFails(req, at, emission, production)
    \/ \E req \in FaultRequests, emission \in Emissions, production \in BOOLEAN :
           MayArriveFault /\ GetTodosFails(req, emission, production)
    \/ \E req \in FaultRequests, emission \in Emissions, production \in BOOLEAN :
           MayArriveFault /\ ToggleFails(req, emission, production)
    \/ \E req \in FaultRequests, emission \in Emissions, production \in BOOLEAN :
           MayArriveFault /\ DeleteFails(req, emission, production)
    \/ \E req \in FaultRequests, emission \in Emissions, production \in BOOLEAN :
           MayArriveFault /\ GetInfoFails(req, emission, production)
    \/ \E req \in FaultRequests, emission \in Emissions, production \in BOOLEAN :
           MayArriveFault /\ GetStatsFails(req, emission, production)
    \/ \E req \in FaultRequests, production \in BOOLEAN :
           MayArriveFault /\ GetHealthFails(req, production)
    \/ \E req \in FaultRequests, production \in BOOLEAN :
           MayArriveFault /\ ObserveFails(req, production)
    \/ \E o \in open : MetricsResume(o)
    \/ \E o \in open, express \in ExpressMajors, production \in BOOLEAN :
           MetricsFails(o, express, production)
    \/ \E o \in open : Finish(o, 0)

SpecFault == Init /\ [][NextFault]_vars

IsHealthResponse ==
    /\ resp.seq = arrived
    /\ resp.req.method = "GET"
    /\ resp.req.path = <<"health">>
    /\ resp.req.bytes = 0

\* C11: a GET /health (no body, its log call not failing) is answered 200
\* with status "healthy" whatever the state: the store empty or not, and
\* also right after a request to another endpoint ended in an error.
C11_HealthAlways200 ==
    (IsHealthResponse /\ faultLog.cause = "none")
    => (resp.status = 200 /\ resp.body.status = "healthy")

C11_Witness ==
    /\ IsHealthResponse
    /\ resp.status = 200
    /\ arrived = 2
    /\ faultLog.handlerThrows = 1
    /\ todos # <<>>

\* C12: every error response (status >= 400) has a body carrying
\* success:false together with error or errors, and no body shows the
\* internal error's message or stack.
C12_ErrorBodyShape ==
    resp.status >= 400 =>
        /\ Has(resp.body, "success")
        /\ resp.body.success = FALSE
        /\ Has(resp.body, "error") \/ Has(resp.body, "errors")
        /\ Has(resp.body, "html") => resp.body.html # ErrorPage(FALSE).html

\* the label tuples of a bag whose status is 500, counted with multiplicity
Count500(bag) ==
    BagCardinality([k \in {t \in BagToSet(bag) : t[3] = 500} |-> CopiesIn(k, bag)])

\* C13: once no request is in progress, every request has been answered and
\* every error thrown by a route handler has passed the completion hook once
\* (gauge back at 0, one http_requests_total{500} and one
\* http_errors_total{500} increment) and has been logged at level error.
C13_HandlerErrorAccounted ==
    open = {} =>
        /\ finished = arrived
        /\ \A k \in DOMAIN httpRequestsInFlight : httpRequestsInFlight[k] = 0
        /\ Count500(httpRequestTotal) = faultLog.handlerThrows
        /\ Count500(httpErrorsTotal) = faultLog.handlerThrows
        /\ faultLog.logged = faultLog.handlerThrows

\* C17: a log call never raises to its caller: a request during which a log
\* call's emission fails is still answered by its handler, not with the 500
\* of an error.
C17_LogNeverRaises ==
    (resp.seq = arrived /\ faultLog.cause = "log") => resp.status < 500


(***************************************************************************)
(* SpecValidation: POST /api/todos with bodies at and over each limit of   *)
(* the validators.                                                         *)
(***************************************************************************)
TextOfLength(n) == [i \in 1..n |-> "a"]

\* two valid bodies, then bodies that each violate one constraint or several
ValidationBodies ==
    {BodyLow,
     [task |-> <<"a", "b">>, description |-> <<"b">>,
      category |-> " work ", priority |-> "high", dueDate |-> [kind |-> "date", day |-> 1]],
     BodyNoTask,
     [task |-> <<" ">>, category |-> "work"],
     [task |-> TextOfLength(TaskMaxLen + 1), category |-> "work"],
     [task |-> <<"a">>, description |-> TextOfLength(DescriptionMaxLen + 1), category |-> "work"],
     [task |-> <<"a">>, category |-> "sports"],
     [task |-> <<"a">>],
     [task |-> <<"a">>, category |-> "work", priority |-> "urgent"],
     [task |-> <<"a">>, category |-> "work", dueDate |-> [kind |-> "text", day |-> 0]],
     [task |-> <<>>, category |-> "sports", priority |-> "urgent"]}

NextValidation ==
    \/ \E b \in ValidationBodies : MayArrive /\ PostTodosInvalid(Post("c1", b))
    \/ \E b \in ValidationBodies : MayArrive /\ PostTodos(Post("c1", b))
    \/ \E o \in open : Finish(o, 0)

SpecValidation == Init /\ [][NextValidation]_vars

\* a body that violates a field constraint, on the values without their
\* surrounding blanks
BodyViolates(body) ==
    \/ ~Has(body, "task")
    \/ StripBlanks(body.task) = <<>>
    \/ Len(StripBlanks(body.task)) > 500
    \/ Has(body, "description") /\ Len(StripBlanks(body.description)) > 2000
    \/ ~Has(body, "category")
    \/ body.category \notin
           {"work", "personal", "shopping", "health", "other", " work "}
    \/ Has(body, "priority") /\ body.priority \notin {"low", "medium", "high"}
    \/ Has(body, "dueDate") /\ body.dueDate.kind \notin {"date", "datetime"}

IsCreateOf(req) == req.method = "POST" /\ req.path = <<"api", "todos">>

\* C14: a POST /api/todos within the client's quotas whose body violates a
\* field constraint is answered 400 with success:false and a non-empty
\* errors list, and leaves the store, the next id, todo_created_total and the
\* derived gauges unchanged.
C14_InvalidCreateRejected ==
    [][(/\ IsHandled
        /\ IsCreateOf(resp'.req)
        /\ Gateway(resp'.req) = "pass"
        /\ ~StrictBlocks(resp'.req)
        /\ BodyViolates(resp'.req.body))
       => (/\ resp'.status = 400
           /\ resp'.body.success = FALSE
           /\ resp'.body.errors # {}
           /\ UNCHANGED <<todos, nextTodoId, todoCreatedTotal, todoCountActive,
                          todoCountCompleted, todoCountByCategory>>)]_vars

C14_Witness ==
    /\ resp.seq = arrived
    /\ IsCreateOf(resp.req)
    /\ resp.status = 400
    /\ resp.body.errors = {"task", "category", "priority"}
    /\ Len(todos) = 1
    /\ todos[1].category = "work"
    /\ todos[1].priority = "high"
    /\ nextTodoId = 2


(***************************************************************************)
(* SpecCounters: creates (valid and invalid), toggles and deletes, with    *)
(* responses finishing after any CPU time.                                 *)
(***************************************************************************)
NextCounters ==
    \/ \E req \in CrudRequests : MayArrive /\ PostTodosInvalid(req)
    \/ \E req \in CrudRequests : MayArrive /\ PostTodos(req)
    \/ \E req \in CrudRequests : MayArrive /\ Toggle(req)
    \/ MayArrive /\ Delete(Del("c1", "1"))
    \/ MayArrive /\ DeleteNotFound(Del("c1", "1"))
    \/ \E o \in open, cpuTime \in CpuTimes : Finish(o, cpuTime)

SpecCounters == Init /\ [][NextCounters]_vars

\* C15: no step lowers a counter: each series of http_requests_total,
\* http_errors_total and http_request_cpu_seconds_total, and each of
\* todo_created_total, todo_completed_total (per priority) and
\* todo_deleted_total, is after the step at least what it was before.
C15_CountersNonDecreasing ==
    [][/\ httpRequestTotal \sqsubseteq httpRequestTotal'
       /\ httpErrorsTotal \sqsubseteq httpErrorsTotal'
       /\ httpRequestCpuTime \sqsubseteq httpRequestCpuTime'
       /\ \A p \in todoPriorities :
              /\ todoCreatedTotal'[p] >= todoCreatedTotal[p]
              /\ todoCompletedTotal'[p] >= todoCompletedTotal[p]
       /\ todoDeletedTotal' >= todoDeletedTotal]_vars

C15_Witness ==
    /\ todoCreatedTotal["low"] = 1
    /\ todoCompletedTotal["low"] = 1
    /\ todoDeletedTotal = 1
    /\ todos = <<>>
    /\ BagCardinality(httpRequestCpuTime) = 2
    /\ BagCardinality(httpRequestTotal) = 3


(***************************************************************************)
(* SpecStats: GET /api/stats over stores built by creates and toggles.     *)
(***************************************************************************)
NextStats ==
    \/ \E b \in {BodyLow, BodyHigh} : MayArrive /\ PostTodos(Post("c1", b))
    \/ \E id \in {"1", "2"} : MayArrive /\ Toggle(Put("c1", id))
    \/ MayArrive /\ GetStats(Get("c1", <<"api", "stats">>, NoFields))
    \/ \E o \in open : Finish(o, 0)

SpecStats == Init /\ [][NextStats]_vars

IsStatsResponse ==
    /\ resp.seq = arrived
    /\ resp.req.method = "GET"
    /\ resp.req.path = <<"api", "stats">>

\* C16: GET /api/stats returns, for every category and every priority of the
\* enums, the number of stored items of that category (priority) that are
\* incomplete; completed items are not counted.
C16_StatsCountIncomplete ==
    IsStatsResponse =>
        /\ resp.status = 200
        /\ \A c \in todoCategories :
               resp.body.byCategory[c] =
                   Cardinality({i \in 1..Len(todos) :
                       todos[i].category = c /\ todos[i].completed = 0})
        /\ \A p \in todoPriorities :
               resp.body.byPriority[p] =
                   Cardinality({i \in 1..Len(todos) :
                       todos[i].priority = p /\ todos[i].completed = 0})

C16_Witness ==
    /\ IsStatsResponse
    /\ resp.body.byPriority["low"] = 0
    /\ resp.body.byCategory["work"] = 0
    /\ Len(todos) = 1
    /\ todos[1].priority = "low"
    /\ todos[1].completed = 1


(***************************************************************************)
(* GET /api/info (SpecLimiter).                                            *)
(***************************************************************************)
IsInfoResponse ==
    /\ resp.seq = arrived
    /\ resp.req.method = "GET"
    /\ resp.req.path = <<"api", "info">>

\* the requests that entered the observability middleware: those whose
\* response is under way with the finish hook attached, and those counted
\* by the hook
Reached ==
    Cardinality({o \in open : o.hooked}) + BagCardinality(httpRequestTotal)

InfoAsSpecified ==
    /\ resp.status = 200
    /\ resp.body.status = "running"
    /\ Has(resp.body, "version")
    /\ Has(resp.body, "deploymentTime")
    /\ resp.body.totalRequests = Reached

\* C18 as stated: GET /api/info is answered 200 with status "running", a
\* version and a deploymentTime in every reachable state, and totalRequests
\* is the number of requests that have reached the middleware, this one
\* included.
C18_InfoAlways200 == IsInfoResponse => InfoAsSpecified

\* C18 as amended: the same for a GET /api/info that is among the first 100
\* requests of its client to /api/ paths in the current window; a later one
\* is answered 429 by the limiter and is not counted in totalRequests.
C18_InfoWithinQuota ==
    IsInfoResponse =>
        LET log == windowLog[resp.req.client]
        IN  /\ (log # <<>> /\ Len(log) <= 100) => resp.status = 200
            /\ resp.status = 200 => InfoAsSpecified
            /\ resp.status # 200 => (resp.status = 429 /\ requestCount = Reached)

C18_Witness ==
    /\ IsInfoResponse
    /\ resp.status = 200
    /\ resp.body.totalRequests = 101
    /\ arrived = 102


(***************************************************************************)
(* Properties of the completion hook's labels (Spec).                      *)
(***************************************************************************)
\* C19: for every label tuple (method, route, status), http_errors_total
\* equals http_requests_total when the status is >= 400 and has no increment
\* when it is below 400; summed over all tuples it never exceeds
\* http_requests_total.
C19_ErrorsIffStatus400 ==
    /\ \A k \in BagToSet(httpRequestTotal) \cup BagToSet(httpErrorsTotal) :
           /\ k[3] >= 400 => CopiesIn(k, httpErrorsTotal) = CopiesIn(k, httpRequestTotal)
           /\ k[3] < 400 => CopiesIn(k, httpErrorsTotal) = 0
    /\ BagCardinality(httpErrorsTotal) <= BagCardinality(httpRequestTotal)

C19_Witness ==
    /\ CopiesIn(<<"GET", <<"nope">>, 404>>, httpErrorsTotal) = 1
    /\ CopiesIn(<<"POST", <<"api", "todos">>, 400>>, httpErrorsTotal) = 1
    /\ CopiesIn(<<"GET", <<"health">>, 200>>, httpRequestTotal) = 1
    /\ BagCardinality(httpErrorsTotal) = 2

\* a request of this method to this path
Probe(method, path) == Req("c1", method, path, NoFields, NoFields, 0, FALSE)

\* the label is a route pattern, or a path that no route matches
IsPatternOrUnmatched(method, label) ==
    Matched(Probe(method, label)) => RouteOf(Probe(method, label)) = label

\* C20: the route label of http_requests_total, http_request_duration_seconds
\* and http_errors_total is the matched route's pattern whenever a route
\* matched the request and the raw path only when none did: no series
\* carries the literal path of a request that a route matched.
C20_RouteLabelIsPattern ==
    /\ \A k \in BagToSet(httpRequestTotal) \cup BagToSet(httpRequestDuration)
                \cup BagToSet(httpErrorsTotal) :
           IsPatternOrUnmatched(k[1], k[2])
    /\ \A o \in open :
           o.hooked =>
               o.route = IF Matched(Probe(o.method, o.routeKey))
                         THEN RouteOf(Probe(o.method, o.routeKey))
                         ELSE o.routeKey

C20_Witness ==
    /\ CopiesIn(<<"PUT", <<"api", "todos", ":id", "toggle">>, 200>>, httpRequestTotal) = 1
    /\ CopiesIn(<<"PUT", <<"api", "todos", ":id", "toggle">>, 200>>, httpRequestDuration) = 1
    /\ CopiesIn(<<"GET", <<"nope">>, 404>>, httpErrorsTotal) = 1


(***************************************************************************)
(* Properties of the request numbers (Spec).                               *)
(***************************************************************************)
\* C21: the requests that reach the observability middleware are numbered
\* 1, 2, 3, ... in arrival order: each number is one greater than the number
\* before it, no number is given twice and none is skipped, whatever
\* requests are in progress.
C21_RequestNumbersConsecutive ==
    /\ \A i \in 1..Len(requestNums) : requestNums[i] = i
    /\ Len(requestNums) = requestCount

C21_Witness ==
    /\ requestNums = <<1, 2>>
    /\ arrived = 3
    /\ \E o \in open : o.phase = "awaiting"
    /\ \E o \in open : o.phase = "ended" /\ o.hooked


(***************************************************************************)
(* SpecQuota: one client sends creates (valid, invalid, with a body that   *)
(* is not JSON) and deletes (of stored and of unknown ids), each request   *)
(* after the response to the one before, until past the quota of           *)
(* strictLimiter; its window of strictLimiter expires once the quota is     *)
(* used up.                                                                *)
(***************************************************************************)
QuotaRequests ==
    {Post("c1", BodyLow), Post("c1", BodyNoTask), Del("c1", "1"), Del("c1", "2"),
     Req("c1", "POST", <<"api", "todos">>, NoFields, NoFields, 64, TRUE)}

MayArriveQuota ==
    /\ arrived < StrictLimiterMax + MaxQuotaExtra
    /\ open = {}

NextQuota ==
    \/ \E req \in QuotaRequests :
           MayArriveQuota /\ arrived - requestCount < MaxQuotaMalformed /\ BodyRejected(req)
    \/ \E req \in QuotaRequests : MayArriveQuota /\ PostTodosInvalid(req)
    \/ \E req \in QuotaRequests :
           MayArriveQuota /\ nextTodoId <= MaxQuotaCreates /\ PostTodos(req)
    \/ \E req \in QuotaRequests : MayArriveQuota /\ DeleteNotFound(req)
    \/ \E req \in QuotaRequests : MayArriveQuota /\ Delete(req)
    \/ \E req \in QuotaRequests : MayArriveQuota /\ StrictLimited(req)
    \/ strictHits["c1"] >= StrictLimiterMax /\ StrictWindowExpire("c1")
    \/ \E o \in open : Finish(o, 0)

SpecQuota == Init /\ [][NextQuota]_vars

\* the step handles a create or a delete of the client
HandlesStrict(c) ==
    /\ arrived' = arrived + 1
    /\ resp'.seq = arrived'
    /\ resp'.req.client = c
    /\ IsStrictRoute(resp'.req)

\* the request takes one unit of the client's quota of 20; past the quota it
\* is answered 429 and changes neither the store nor a business counter
TakesFromQuota(c) ==
    /\ strictHits'[c] = strictHits[c] + 1
    /\ strictHits'[c] > 20 => (resp'.status = 429 /\ UNCHANGED <<storeVars, bizVars>>)
    /\ strictHits'[c] <= 20 => resp'.status # 429

\* C22 as stated: the 21st create or delete a client sends within a window,
\* whatever the 20 before it were, is answered 429.  (The client sends
\* nothing else, so its 21st request is the 21st entry of its log; its
\* window has not expired while strictHits is at the quota.)
C22_TwentyFirstLimited ==
    \A c \in Clients :
        (/\ resp.seq = arrived
         /\ resp.req.client = c
         /\ IsStrictRoute(resp.req)
         /\ Len(windowLog[c]) = StrictLimiterMax + 1
         /\ strictHits[c] >= StrictLimiterMax)
        => resp.status = 429

\* C22: the creates and deletes of a client that reach their route (the
\* body parser and the general limiter answer before it) take one unit each
\* of one shared quota of 20 per window, valid or not, item found or not:
\* the first 20 are handled, every further one is answered 429 and changes
\* neither the item store nor a business counter.
C22_StrictQuotaShared ==
    [][\A c \in Clients :
          (HandlesStrict(c) /\ requestCount' = requestCount + 1) => TakesFromQuota(c)]_vars

C22_Witness ==
    /\ resp.seq = arrived
    /\ resp.req = Del("c1", "2")
    /\ resp.status = 429
    /\ strictHits["c1"] = 21
    /\ HasTodo(todos, 2)
    /\ todoDeletedTotal = 1
    /\ CopiesIn(<<"POST", <<"api", "todos">>, 400>>, httpRequestTotal) >= 1
    /\ CopiesIn(<<"DELETE", <<"api", "todos", ":id">>, 404>>, httpRequestTotal) >= 1


(***************************************************************************)
(* Properties of delete and toggle on the item store (SpecStore).          *)
(***************************************************************************)
\* C23: a DELETE /api/todos/:id answered with success removes exactly the
\* item with that id: the other items keep their fields and their order,
\* the next id is unchanged and todo_deleted_total rises by exactly 1,
\* whether the removed item was complete or not.
C23_DeleteRemovesOne ==
    [][(/\ IsHandled
        /\ IsDeleteOf(resp'.req)
        /\ resp'.status = 200)
       => LET id == ParseInt(IdParam(resp'.req))
          IN  /\ Cardinality({i \in 1..Len(todos) : todos[i].id = id}) = 1
              /\ todos' = SelectSeq(todos, LAMBDA t : t.id # id)
              /\ nextTodoId' = nextTodoId
              /\ todoDeletedTotal' = todoDeletedTotal + 1]_vars

C23_Witness ==
    /\ IsDeleteOf(resp.req)
    /\ resp.status = 200
    /\ resp.seq = arrived
    /\ arrived = 4
    /\ Len(todos) = 1
    /\ todos[1].id = 2
    /\ todos[1].completed = 0
    /\ todoDeletedTotal = 1
    /\ todoCompletedTotal["low"] + todoCompletedTotal["high"] = 1


\* C24: every stored item has a completedAt exactly when it is complete: a
\* created item is incomplete with completedAt null, a toggle to complete
\* sets completedAt and a toggle back to incomplete clears it.
C24_CompletedAtIffCompleted ==
    \A i \in 1..Len(todos) :
        /\ todos[i].completed \in {0, 1}
        /\ (todos[i].completedAt # NullTime) <=> (todos[i].completed = 1)

C24_Witness ==
    /\ lastToggle.run = 2
    /\ Len(todos) = 2
    /\ \E i, j \in 1..Len(todos) :
           /\ todos[i].id = lastToggle.id
           /\ todos[i].completed = 0
           /\ todos[i].completedAt = NullTime
           /\ todos[j].completed = 0
           /\ todos[j].id # lastToggle.id


(***************************************************************************)
(* Properties of the list response (SpecList).                             *)
(***************************************************************************)
\* C25: in every GET /api/todos response total, active and completed count
\* the whole store, whatever the filters: total is the number of stored
\* items, active the number of incomplete and completed the number of
\* complete ones, so active + completed = total and total may exceed the
\* length of the list returned.
C25_TotalsOverWholeStore ==
    (IsListResponse /\ resp.seq = arrived) =>
        /\ resp.body.total = Len(todos)
        /\ resp.body.active = Cardinality({i \in 1..Len(todos) : todos[i].completed = 0})
        /\ resp.body.completed = Cardinality({i \in 1..Len(todos) : todos[i].completed = 1})
        /\ resp.body.active + resp.body.completed = resp.body.total

C25_Witness ==
    /\ IsListResponse
    /\ resp.seq = arrived
    /\ resp.body.total = 2
    /\ resp.body.active = 2
    /\ Supplied(resp.req.query, "category")
    /\ Len(resp.body.todos) = 1


(***************************************************************************)
(* Properties of the in-flight gauge (Spec).                               *)
(***************************************************************************)
\* the requests of this method and path on which the middleware has hooked
\* "finish" and whose response has not finished: those still open and those
\* whose response was dropped
Unfinished(key) ==
    Cardinality({o \in open : o.hooked /\ <<o.method, o.routeKey>> = key})
        + CopiesIn(key, stranded)

\* C26: with any number of requests open at once, for every (method, raw
\* path) http_requests_in_flight is the number of requests of that method
\* and path that have entered the observability middleware and whose
\* response has not finished; no series is negative, so every decrement
\* went to the series of its increment.
C26_InFlightCountsOpen ==
    \A key \in DOMAIN httpRequestsInFlight
               \cup {<<o.method, o.routeKey>> : o \in open}
               \cup BagToSet(stranded) :
        /\ GaugeValue(httpRequestsInFlight, key) = Unfinished(key)
        /\ GaugeValue(httpRequestsInFlight, key) >= 0

C26_Witness ==
    /\ GaugeValue(httpRequestsInFlight, <<"GET", <<"metrics">>>>) = 2
    /\ CopiesIn(<<"GET", <<"metrics">>>>, stranded) = 1
    /\ GaugeValue(httpRequestsInFlight, <<"PUT", <<"api", "todos", "1", "toggle">>>>) = 1
    /\ Cardinality(open) = 2


(***************************************************************************)
(* SpecRead: the five reading endpoints on stores built by creates and     *)
(* toggles at different clock readings, with requests in progress.         *)
(***************************************************************************)
ReadOnlyPaths == {<<"api", "todos">>, <<"api", "info">>, <<"api", "stats">>,
                  <<"health">>, <<"metrics">>}

ReadRequests ==
    {Post("c1", BodyLow), Put("c1", "1")}
    \cup {Get("c1", path, NoFields) : path \in ReadOnlyPaths}

NextRead ==
    \/ \E req \in ReadRequests : MayArrive /\ PostTodos(req)
    \/ \E req \in ReadRequests : MayArrive /\ Toggle(req)
    \/ \E req \in ReadRequests : MayArrive /\ GetTodos(req)
    \/ \E req \in ReadRequests : MayArrive /\ GetInfo(req)
    \/ \E req \in ReadRequests : MayArrive /\ GetStats(req)
    \/ \E req \in ReadRequests : MayArrive /\ GetHealth(req)
    \/ \E req \in ReadRequests : MayArrive /\ GetMetrics(req)
    \/ \E o \in open : MetricsResume(o)
    \/ \E o \in open : Finish(o, 0)
    \/ Tick

SpecRead == Init /\ [][NextRead]_vars

\* the step is the arrival of a GET to one of the five reading endpoints, or
\* a later step of a request (GET /metrics resuming, a response finishing)
ReadStep ==
    \/ /\ arrived' = arrived + 1
       /\ \E o \in open' \ open :
              o.seq = arrived' /\ o.method = "GET" /\ o.routeKey \in ReadOnlyPaths
    \/ arrived' = arrived

\* C27: GET /api/todos, /api/info, /api/stats, /health and /metrics leave
\* the item store (every item's fields, and the order of the items), the
\* next id, the three business counters and the derived gauges as they
\* were; listing sorts a copy.
C27_ReadsChangeNothing ==
    [][ReadStep => UNCHANGED <<storeVars, bizVars>>]_vars

C27_Witness ==
    /\ IsListResponse
    /\ resp.seq = arrived
    /\ Len(todos) = 2
    /\ resp.body.todos = getAllTodos
    /\ getAllTodos # todos


(***************************************************************************)
(* The timesheet service of src/app.js.  It has the same observability     *)
(* middleware and completion hook (l.116-161) behind express.json, and no  *)
(* rate limiter.  A JSON value of a request body is a record with its      *)
(* type; a field that is absent reads as undefined.                        *)
(***************************************************************************)
JNum(n) == [type |-> "number", num |-> n]

JStr(t) == [type |-> "string", text |-> t]

JBool(b) == [type |-> "boolean", bool |-> b]

JNull == [type |-> "null"]

JUndefined == [type |-> "undefined"]

\* const { name, date, hours, project } = req.body
JField(body, k) == IF Has(body, k) THEN body[k] ELSE JUndefined

\* !v is false
Truthy(v) ==
    CASE v.type = "number" -> v.num # 0
      [] v.type = "string" -> v.text # ""
      [] v.type = "boolean" -> v.bool
      [] OTHER -> FALSE

\* v == null
LooseNull(v) == v.type \in {"null", "undefined"}

NaN == [nan |-> TRUE, num |-> 0]

Number(n) == [nan |-> FALSE, num |-> n]

\* the number the operators <= and > compare: a string is parsed, a boolean
\* is 1 or 0, null is 0, undefined and unparsable text are NaN
ToNumber(v) ==
    CASE v.type = "number" -> Number(v.num)
      [] v.type = "string" ->
             IF v.text = "" THEN Number(0)
             ELSE IF IsIntStr(v.text) THEN Number(ParseInt(v.text))
             ELSE NaN
      [] v.type = "boolean" -> Number(IF v.bool THEN 1 ELSE 0)
      [] v.type = "null" -> Number(0)
      [] OTHER -> NaN

\* v <= n and v > n: false when either side is NaN
LessOrEqual(v, n) == ~ToNumber(v).nan /\ ToNumber(v).num <= n

GreaterThan(v, n) == ~ToNumber(v).nan /\ ToNumber(v).num > n

\* !name || !date || hours == null || !project   (l.306)
MissingFields(body) ==
    \/ ~Truthy(JField(body, "name"))
    \/ ~Truthy(JField(body, "date"))
    \/ LooseNull(JField(body, "hours"))
    \/ ~Truthy(JField(body, "project"))

\* hours <= 0 || hours > 24   (l.309)
HoursOutOfRange(body) ==
    \/ LessOrEqual(JField(body, "hours"), 0)
    \/ GreaterThan(JField(body, "hours"), HoursMax)

\* prom-client's Counter.inc(value) and Histogram.observe(value) throw a
\* TypeError for a value that is not a finite number
IsFiniteNumber(v) == v.type = "number"

\* { ...req.body, timestamp: new Date().toISOString(), id: Date.now() }
SheetEntry(body, now) == [timestamp |-> now, id |-> now] @@ body

\* the middleware on arrival (l.116-129)
SheetObserve(req) ==
    /\ arrived' = arrived + 1
    /\ requestCount' = NextRequestNum(requestCount)
    /\ requestNums' = Append(requestNums, requestCount')
    /\ httpRequestsInFlight' = GaugeInc(httpRequestsInFlight, RouteKey(req))
    /\ lastToggle' = NoToggle
    /\ UNCHANGED <<storeVars, bizVars, httpVars, limitVars, clock, finished,
                   stranded, assignedIds>>

IsTimesheetPost(req) == req.method = "POST" /\ req.path = <<"api", "timesheets">>

\* POST /api/timesheets (l.302-325), a required field is missing
PostTimesheetsMissing(req) ==
    /\ IsTimesheetPost(req)
    /\ SheetObserve(req)
    /\ MissingFields(req.body)
    /\ Answer(req, 400, [success |-> FALSE, error |-> "Missing required fields"])
    /\ UNCHANGED sheetVars

\* POST /api/timesheets, the hours compare as out of range
PostTimesheetsOutOfRange(req) ==
    /\ IsTimesheetPost(req)
    /\ SheetObserve(req)
    /\ ~MissingFields(req.body)
    /\ HoursOutOfRange(req.body)
    /\ Answer(req, 422, [success |-> FALSE, error |-> "Hours must be between 0 and 24"])
    /\ UNCHANGED sheetVars

\* POST /api/timesheets, the body passed both checks: the entry is pushed
\* (l.314), then the metrics are recorded (l.317-320) and the response is
\* sent (l.324).  inc(hours) throws when hours is not a number: the handler
\* has no try/catch, Express's final handler answers 500.
PostTimesheets(req, production) ==
    /\ IsTimesheetPost(req)
    /\ SheetObserve(req)
    /\ ~MissingFields(req.body)
    /\ ~HoursOutOfRange(req.body)
    /\ LET entry == SheetEntry(req.body, clock)
           project == req.body.project
           hours == req.body.hours
       IN  /\ timesheets' = Append(timesheets, entry)
           /\ timesheetSubmissionsTotal' = BagInc(timesheetSubmissionsTotal, project)
           /\ IF IsFiniteNumber(hours)
              THEN /\ timesheetHoursTotal' = BagIncBy(timesheetHoursTotal, project, hours.num)
                   /\ timesheetHoursPerEntry' = BagInc(timesheetHoursPerEntry, project)
                   /\ timesheetCount' = Len(timesheets')
                   /\ Answer(req, 200, [success |-> TRUE, entry |-> entry])
              ELSE /\ UNCHANGED <<timesheetHoursTotal, timesheetHoursPerEntry, timesheetCount>>
                   /\ Uncaught(req, "handler", production)

(***************************************************************************)
(* SpecSheets: clients post timesheets with hours of every JSON type.      *)
(***************************************************************************)
HoursValues ==
    {JNum(-1), JNum(0), JNum(8), JNum(HoursMax), JNum(HoursMax + 1),
     JStr(""), JStr("8"), JStr("abc"), JBool(TRUE), JBool(FALSE), JNull}

SheetBody(hours) ==
    [name |-> JStr("ann"), date |-> JStr("2024-01-01"), hours |-> hours,
     project |-> JStr("DevOps")]

SheetBodies ==
    {SheetBody(h) : h \in HoursValues}
    \cup {[name |-> JStr("ann"), date |-> JStr("2024-01-01"), project |-> JStr("DevOps")],
          [SheetBody(JNum(8)) EXCEPT !.project = JStr("")]}

SheetRequests ==
    {Req("c1", "POST", <<"api", "timesheets">>, NoFields, b, 64, FALSE) : b \in SheetBodies}

MayArriveSheet == arrived < MaxSheetRequests /\ Cardinality(open) < MaxOpen

NextSheets ==
    \/ \E req \in SheetRequests : MayArriveSheet /\ PostTimesheetsMissing(req)
    \/ \E req \in SheetRequests : MayArriveSheet /\ PostTimesheetsOutOfRange(req)
    \/ \E req \in SheetRequests, production \in BOOLEAN :
           MayArriveSheet /\ PostTimesheets(req, production)
    \/ \E o \in open : Finish(o, 0)

SpecSheets == Init /\ [][NextSheets]_vars

\* C28: POST /api/timesheets is all-or-nothing for every body: only a
\* request answered with success:true appends an entry, every stored entry
\* has a number of hours with 0 < hours <= 24, and after every request
\* timesheet_entries_current is the number of stored entries.
C28_TimesheetAllOrNothing ==
    [][/\ Len(timesheets') > Len(timesheets) =>
              /\ resp'.seq = arrived'
              /\ resp'.status = 200
              /\ resp'.body = [success |-> TRUE, entry |-> timesheets'[Len(timesheets')]]
       /\ \A i \in 1..Len(timesheets') :
              /\ timesheets'[i].hours.type = "number"
              /\ timesheets'[i].hours.num > 0
              /\ timesheets'[i].hours.num <= HoursMax
       /\ timesheetCount' = Len(timesheets')]_vars


(***************************************************************************)
(* Properties of filters without a value (SpecList).                       *)
(***************************************************************************)
FilterNames == {"search", "category", "priority", "completed"}

\* C29: in GET /api/todos a filter parameter that is absent or has an empty
\* value (search=, category=, priority=, completed=) does not restrict the
\* result: the response lists every stored item that satisfies the other,
\* non-empty filters.
C29_EmptyFilterIgnored ==
    (/\ IsListResponse
     /\ resp.seq = arrived
     /\ \E k \in FilterNames : ~Supplied(resp.req.query, k))
    => Range(resp.body.todos) = {t \in Range(todos) : SatisfiesAll(t, resp.req.query)}


(***************************************************************************)
(* SpecProbe: one client sends invalid creates, each after the response to *)
(* the one before, until both of its quotas are used up, and probes        *)
(* GET /health, GET /metrics and GET / at any moment in between.           *)
(***************************************************************************)
ProbePaths == {<<"health">>, <<"metrics">>, <<>>}

ProbeRequests == {Get("c1", path, NoFields) : path \in ProbePaths}

QuotaPost == Post("c1", BodyNoTask)

MayArriveApi == limiterHits["c1"] < LimiterMax + MaxLimiterExtra /\ open = {}

MayProbe == arrived - limiterHits["c1"] < MaxProbes /\ open = {}

NextProbe ==
    \/ MayArriveApi /\ PostTodosInvalid(QuotaPost)
    \/ MayArriveApi /\ StrictLimited(QuotaPost)
    \/ \E req \in ProbeRequests \cup {QuotaPost} :
           MayArriveApi /\ RateLimited(req)
    \/ \E req \in ProbeRequests : MayProbe /\ GetHealth(req)
    \/ \E req \in ProbeRequests : MayProbe /\ GetMetrics(req)
    \/ \E req \in ProbeRequests : MayProbe /\ GetRoot(req)
    \/ \E o \in open : MetricsResume(o)
    \/ \E o \in open : Finish(o, 0)

SpecProbe == Init /\ [][NextProbe]_vars

IsProbe(method, path) == method = "GET" /\ path \in ProbePaths

\* C30: GET /health, GET /metrics and GET / are outside both limiters: a
\* request to them takes nothing from the client's general or mutating
\* quota, reaches the application, and is answered 200 and never 429, also
\* when the client has used up both quotas in the current window.
C30_ProbesOutsideLimiter ==
    [][/\ \A o \in open' \ open :
              (arrived' = arrived + 1 /\ o.seq = arrived' /\ IsProbe(o.method, o.routeKey))
              => /\ UNCHANGED <<limiterHits, strictHits, windowLog>>
                 /\ o.hooked
                 /\ o.status = 200
       /\ IsProbe(resp'.req.method, resp'.req.path) => resp'.status = 200]_vars

C30_Witness ==
    /\ limiterHits["c1"] > LimiterMax
    /\ strictHits["c1"] > StrictLimiterMax
    /\ resp.seq = arrived
    /\ resp.req.path = <<"health">>
    /\ resp.status = 200
    /\ resp.body.status = "healthy"
    /\ CopiesIn(<<"GET", <<"metrics">>, 200>>, httpRequestTotal) = 1


====
